---------------------------- MODULE Spec2Model ----------------------------
(***************************************************************************)
(* A model of the shift-cipher project: the Encryptor and its key          *)
(* schedulers, the cracking pipeline (keylength estimate, column cracker,  *)
(* cracker driver) and the worker pool that drives it.                     *)
(*                                                                         *)
(* Text is held as a sequence of symbols 0..26 (0..25 = 'a'..'z', 26 =     *)
(* ' '), the encoding of utils.rs.  A panic is a value: every operator     *)
(* that can abort returns a record that says so, and an action that        *)
(* aborts moves its thread to a panicked position.                         *)
(***************************************************************************)
EXTENDS Integers, Sequences, FiniteSets, TLC

VARIABLES
    \* ---- Encryptor (ciphers/encryptor.rs) ----
    key,                    \* Encryptor.key, reduced by Encryptor::new
    keyschedule,            \* Encryptor.keyschedule
    rng,                    \* Encryptor.rng
    prev_plaintext_length,  \* Encryptor.prev_plaintext_length: None or Some(n)
    enc_call,               \* the last call made on the Encryptor and what it returned
    enc_cycle               \* the last encrypt that returned: its argument and result,
                            \* and whether the encrypt before it had the same argument

encVars == <<key, keyschedule, rng, prev_plaintext_length, enc_call, enc_cycle>>


-----------------------------------------------------------------------------
(* Option values and small helpers *)

None == [some |-> FALSE, val |-> 0]

Some(v) == [some |-> TRUE, val |-> v]

Min(a, b) == IF a < b THEN a ELSE b

Max(a, b) == IF a < b THEN b ELSE a

Abs(a) == IF a < 0 THEN -a ELSE a

\* usize::MAX, held in the width of TLC's integers: the greatest usize, the
\* value of a cast of +infinity to usize, larger than every finite score
USIZE_MAX == 2147483647

\* usize arithmetic.  An operation whose result does not fit in a usize panics
\* in a build with overflow checks and wraps in a build without them; each
\* operation yields whether it overflowed and the wrapped value.
usize_add(a, b) ==
    IF b > 0 /\ a > USIZE_MAX - b
    THEN [overflow |-> TRUE, value |-> (a - (USIZE_MAX - b)) - 1]
    ELSE [overflow |-> FALSE, value |-> a + b]

usize_sub(a, b) ==
    IF a < b
    THEN [overflow |-> TRUE, value |-> (USIZE_MAX - (b - a)) + 1]
    ELSE [overflow |-> FALSE, value |-> a - b]

\* a * b modulo 2^w by doubling, so that no intermediate value leaves the width
RECURSIVE wrapping_mul(_, _)
wrapping_mul(a, b) ==
    IF b = 0 THEN 0
    ELSE CHOOSE v \in {usize_add(usize_add(h, h).value, IF b % 2 = 1 THEN a ELSE 0).value :
                          h \in {wrapping_mul(a, b \div 2)}} : TRUE

usize_mul(a, b) ==
    [overflow |-> b # 0 /\ a > USIZE_MAX \div b, value |-> wrapping_mul(a, b)]

-----------------------------------------------------------------------------
(* utils.rs: the alphabet and the shift arithmetic *)

ALPHALEN == 27

Symbols == 0 .. (ALPHALEN - 1)

I8 == -128 .. 127

\* i8::rem_euclid / u8::rem_euclid with a positive modulus
RemEuclid(a, n) == a % n

\* impl NumToChar for u8: reduce into the alphabet (the symbol stands for the char)
NumToChar(num) == RemEuclid(num, ALPHALEN)

\* impl Shift: wrap the amount into one alphabet length, add, reduce
Shift(sym, amount) == NumToChar(sym + RemEuclid(amount, ALPHALEN))

\* .iter().map(|&n| n.shift(amount)).collect()
ShiftAll(bytes, amount) == [i \in 1 .. Len(bytes) |-> Shift(bytes[i], amount)]

\* reduce_key: every entry to its smallest non-negative shift
reduce_key(k) == [i \in 1 .. Len(k) |-> RemEuclid(k[i], ALPHALEN)]

-----------------------------------------------------------------------------
(* ciphers/schedulers: a scheduler maps (index, key_length, plaintext_length) *)
(* to NextKey: a key index, or Rand.  "Panic" stands for the abort of an     *)
(* arithmetic operation (remainder or division by zero, usize underflow).    *)

KeyIndex(i) == [tag |-> "KeyIndex", idx |-> i]

Rand == [tag |-> "Rand", idx |-> 0]

SchedPanic == [tag |-> "Panic", idx |-> 0]

\* impl KeySchedule for RepeatingKey
RepeatingKeySchedule(index, key_length) ==
    IF key_length = 0 THEN SchedPanic
    ELSE KeyIndex(index % key_length)

\* impl KeySchedule for Aab, in a build with or without overflow checks
AabScheduleIn(self, index, key_length, overflow_checks) ==
    IF key_length = 0 THEN SchedPanic
    ELSE
    LET offset == self.offset % key_length
        num_chars == Min(Max(1, self.num_chars % key_length), key_length - offset)
        repeated == usize_mul(num_chars, self.num_reps)
        eff_key_length == usize_add(key_length, repeated.value)
        eff_index == index % eff_key_length.value
        reps == usize_add(self.num_reps, 1)
        block == usize_mul(reps.value, num_chars)
        block_end == usize_add(offset, block.value)
        after == usize_sub(eff_index, repeated.value)
    IN  IF overflow_checks /\ (repeated.overflow \/ eff_key_length.overflow) THEN SchedPanic
        ELSE IF eff_key_length.value = 0 THEN SchedPanic
        ELSE IF eff_index < offset THEN KeyIndex(eff_index)
        ELSE IF overflow_checks /\ (reps.overflow \/ block.overflow \/ block_end.overflow)
             THEN SchedPanic
        ELSE IF eff_index < block_end.value
             THEN KeyIndex(((eff_index - offset) % num_chars) + offset)
        ELSE IF overflow_checks /\ after.overflow THEN SchedPanic
        ELSE KeyIndex(after.value)

\* impl KeySchedule for LengthMod, in a build with or without overflow checks
LengthModScheduleIn(index, key_length, plaintext_length, overflow_checks) ==
    LET scaled == usize_mul(index, key_length)
        product == usize_mul(plaintext_length, index)
    IN  IF overflow_checks /\ scaled.overflow THEN SchedPanic
        ELSE IF plaintext_length < scaled.value
        THEN (IF key_length = 0 THEN SchedPanic
              ELSE KeyIndex(plaintext_length % key_length))
        ELSE IF overflow_checks /\ product.overflow THEN SchedPanic
        ELSE (IF key_length = 0 THEN SchedPanic
              ELSE KeyIndex(product.value % key_length))

\* impl KeySchedule for OffsetReverse
OffsetReverseSchedule(self, index, key_length) ==
    LET offset == self.offset % (key_length + 1)
        eff_key_length == key_length + offset
    IN  IF eff_key_length = 0 THEN SchedPanic
        ELSE LET eff_index == index % eff_key_length
             IN  IF eff_index < offset
                 THEN KeyIndex(eff_key_length - eff_index - offset - 1)
                 ELSE KeyIndex(eff_index - offset)

\* The base schedulers as values (RandomBaseScheduler); unused fields are 0.
BaseAab(n, r, o) == [kind |-> "Aab", num_chars |-> n, num_reps |-> r, offset |-> o]

BaseLengthMod == [kind |-> "LengthMod", num_chars |-> 0, num_reps |-> 0, offset |-> 0]

BaseOffsetReverse(o) == [kind |-> "OffsetReverse", num_chars |-> 0, num_reps |-> 0, offset |-> o]

BaseRepeatingKey == [kind |-> "RepeatingKey", num_chars |-> 0, num_reps |-> 0, offset |-> 0]

\* impl KeySchedule for RandomBaseScheduler
BaseScheduleIn(s, i, k, p, overflow_checks) ==
    CASE s.kind = "Aab" -> AabScheduleIn(s, i, k, overflow_checks)
      [] s.kind = "LengthMod" -> LengthModScheduleIn(i, k, p, overflow_checks)
      [] s.kind = "OffsetReverse" -> OffsetReverseSchedule(s, i, k)
      [] s.kind = "RepeatingKey" -> RepeatingKeySchedule(i, k)

\* a random_at without the period: every position from start on is random
random_at_from_start(self, index) == index >= self.start

\* PeriodicRand::random_at; the remainder is only taken when index >= start
random_at(self, index) ==
    index >= self.start /\ (index - self.start) % self.period = 0

\* usize::saturating_sub
SaturatingSub(a, b) == IF a < b THEN 0 ELSE a - b

\* PeriodicRand::insertions_done
insertions_done(self, index) ==
    LET num_insertions == SaturatingSub(index, self.start) \div self.period
    IN  IF index > self.start THEN num_insertions + 1 ELSE num_insertions

\* impl KeySchedule for (&PeriodicRand, &K), and RandomScheduler's nesting of
\* it: layers[1] is the outermost PeriodicRand, base the innermost scheduler.
RECURSIVE LayeredScheduleIn(_, _, _, _, _, _)
LayeredScheduleIn(layers, base, index, key_length, plaintext_length, overflow_checks) ==
    IF layers = <<>>
    THEN BaseScheduleIn(base, index, key_length, plaintext_length, overflow_checks)
    ELSE
    LET prand == Head(layers)
    IN  IF prand.period = 0 /\ (index >= prand.start \/ ~prand.overwrite)
        THEN SchedPanic
        ELSE IF random_at(prand, index) THEN Rand
        ELSE IF prand.overwrite
             THEN LayeredScheduleIn(Tail(layers), base, index, key_length, plaintext_length,
                                    overflow_checks)
        ELSE IF insertions_done(prand, index) > index THEN SchedPanic
        ELSE LayeredScheduleIn(Tail(layers), base, index - insertions_done(prand, index),
                               key_length, plaintext_length, overflow_checks)

\* KeySchedule::schedule of a scheduler value in a build with or without
\* overflow checks
schedule_in(ks, index, key_length, plaintext_length, overflow_checks) ==
    LayeredScheduleIn(ks.layers, ks.base, index, key_length, plaintext_length, overflow_checks)

\* KeySchedule::schedule of the Encryptor's scheduler: the positions and
\* lengths of an encryption are those of texts held in memory and the
\* parameters those of from_rng, no product of them overflows
schedule(ks, index, key_length, plaintext_length) ==
    schedule_in(ks, index, key_length, plaintext_length, TRUE)

PeriodicRand(p, s, o) == [period |-> p, start |-> s, overwrite |-> o]

-----------------------------------------------------------------------------
(* rng.rs.  RomuDuo's 64-bit state is held as the seed it was built from and *)
(* the number of draws made since: a deterministic stream, one value per    *)
(* draw.  `next() as i8` is the value the stream yields.                    *)

RngOf(seed) == [seed |-> seed, draws |-> 0]

\* Rng::next: the value drawn and the advanced generator
RngNext(r) ==
    [value |-> ((r.seed * 101 + r.draws * 37 + 11) % 256) - 128,
     rng |-> [r EXCEPT !.draws = @ + 1]]

-----------------------------------------------------------------------------
(* ciphers/encryptor.rs *)

\* Upper bound on the ciphertext the encryption loop is followed for; a loop
\* that is still running at this length is reported as "running".
MaxCipherLen == 40

\* self.key.get(index): the shift of a key index inside the key; None for a
\* random slot (and for an index outside the key)
KeyGet(k, nk) ==
    IF nk.tag = "KeyIndex" /\ nk.idx < Len(k) THEN Some(k[nk.idx + 1]) ELSE None

\* encrypt line 107: the next plaintext char shifted by the key entry
EncryptChar(plain_char, shift) == Shift(plain_char, shift)

\* a decrypt that shifts forward again, as encrypt does
DecryptCharForward(cipher_char, shift) == Shift(cipher_char, shift)

\* decrypt line 143: the cipher char shifted by the negated key entry
DecryptChar(cipher_char, shift) == Shift(cipher_char, -shift)

\* encrypt lines 88-111: the loop, from `consumed` plaintext chars read and
\* `cipher` written so far, with the cloned generator r
RECURSIVE EncryptLoop(_, _, _, _, _, _)
EncryptLoop(k, ks, plaintext, consumed, cipher, r) ==
    IF consumed = Len(plaintext) THEN [status |-> "ok", text |-> cipher, rng |-> r]
    ELSE IF Len(cipher) >= MaxCipherLen
         THEN [status |-> "running", text |-> cipher, rng |-> r]
    ELSE
    LET index == schedule(ks, Len(cipher), Len(k), Len(plaintext))
        shift == KeyGet(k, index)
        drawn == RngNext(r)
    IN  IF index.tag = "Panic" THEN [status |-> "panic", text |-> cipher, rng |-> r]
        ELSE IF ~shift.some
             THEN EncryptLoop(k, ks, plaintext, consumed,
                              Append(cipher, NumToChar(drawn.value)), drawn.rng)
             ELSE EncryptLoop(k, ks, plaintext, consumed + 1,
                              Append(cipher, EncryptChar(plaintext[consumed + 1], shift.val)), r)

\* decrypt lines 131-147: the loop over the ciphertext from position i
RECURSIVE DecryptLoop(_, _, _, _, _, _)
DecryptLoop(k, ks, ciphertext, i, ptlen, plaintext) ==
    IF i = Len(ciphertext) THEN [status |-> "ok", text |-> plaintext]
    ELSE
    LET index == schedule(ks, i, Len(k), ptlen)
        shift == KeyGet(k, index)
    IN  IF index.tag = "Panic" THEN [status |-> "panic", text |-> plaintext]
        ELSE IF ~shift.some
             THEN DecryptLoop(k, ks, ciphertext, i + 1, ptlen, plaintext)
             ELSE DecryptLoop(k, ks, ciphertext, i + 1, ptlen,
                              Append(plaintext, DecryptChar(ciphertext[i + 1], shift.val)))

MustDecrypt == "must decrypt after encrypt"

MustEncrypt == "encrypt must be called before decrypt"

ArithmeticPanic == "attempt to calculate the remainder with a divisor of zero"

CallRecord(op, arg, status, msg, ret) ==
    [op |-> op, arg |-> arg, status |-> status, msg |-> msg, ret |-> ret]

\* an encrypt that never checks for a pending encrypt
EncryptAllowedAlways(prev) == TRUE

\* encrypt lines 72-75: the assertion on what replace() returned
EncryptAllowed(prev) == ~prev.some

\* an encrypt that draws from the Encryptor's own generator
RngAfterEncryptInPlace(self_rng, loop_rng) == loop_rng

\* encrypt line 78: the loop draws from a clone, self.rng is what it was
RngAfterEncrypt(self_rng, loop_rng) == self_rng

\* Cipher::encrypt for Encryptor
Encrypt(plaintext) ==
    /\ enc_call.status = "ok"
    /\ prev_plaintext_length' = Some(Len(plaintext))
    /\ IF ~EncryptAllowed(prev_plaintext_length)
       THEN /\ enc_call' = CallRecord("encrypt", plaintext, "panic", MustDecrypt, <<>>)
            /\ UNCHANGED <<enc_cycle, rng>>
       ELSE \E r \in {EncryptLoop(key, keyschedule, plaintext, 0, <<>>, rng)} :
                /\ rng' = RngAfterEncrypt(rng, r.rng)
                /\ enc_call' = CallRecord("encrypt", plaintext, r.status,
                                          IF r.status = "panic" THEN ArithmeticPanic ELSE "",
                                          IF r.status = "ok" THEN r.text ELSE <<>>)
                /\ enc_cycle' = IF r.status = "ok"
                                THEN [valid |-> TRUE, plaintext |-> plaintext,
                                      ciphertext |-> r.text,
                                      again |-> enc_cycle.valid
                                                /\ enc_cycle.plaintext = plaintext]
                                ELSE enc_cycle
    /\ UNCHANGED <<key, keyschedule>>

\* Cipher::decrypt for Encryptor
Decrypt(ciphertext) ==
    /\ enc_call.status = "ok"
    /\ prev_plaintext_length' = None
    /\ IF ~prev_plaintext_length.some
       THEN enc_call' = CallRecord("decrypt", ciphertext, "panic", MustEncrypt, <<>>)
       ELSE \E r \in {DecryptLoop(key, keyschedule, ciphertext, 0,
                                   prev_plaintext_length.val, <<>>)} :
                enc_call' = CallRecord("decrypt", ciphertext, r.status,
                                       IF r.status = "panic" THEN ArithmeticPanic ELSE "",
                                       IF r.status = "ok" THEN r.text ELSE <<>>)
    /\ UNCHANGED <<key, keyschedule, rng, enc_cycle>>

-----------------------------------------------------------------------------
(* The Encryptors and the texts the model runs *)

MaxPtLen == 3

\* keys as handed to Encryptor::new, before reduce_key
Keys == {<<>>, <<0, 1, -1>>, <<-128, 127>>}

PtSymbols == {0, 26}

Plaintexts == UNION {[1 .. n -> PtSymbols] : n \in 0 .. MaxPtLen}

ForeignCiphertexts == {<<26, 0, 26>>}

BaseSchedulers ==
    {BaseRepeatingKey, BaseLengthMod, BaseAab(2, 1, 1), BaseOffsetReverse(2)}

PeriodicRands ==
    {PeriodicRand(2, s, o) : s \in {0, 1}, o \in BOOLEAN}
    \cup {PeriodicRand(1, 0, TRUE), PeriodicRand(1, 1, FALSE)}

\* RandomScheduler::Zero, ::One with every PeriodicRand, and some ::Two, ::Three
LayerStacks ==
    {<<>>} \cup {<<a>> : a \in PeriodicRands}
    \cup {<<PeriodicRand(2, 0, FALSE), PeriodicRand(2, 1, TRUE)>>,
          <<PeriodicRand(3, 1, FALSE), PeriodicRand(2, 0, FALSE)>>,
          <<PeriodicRand(2, 1, TRUE), PeriodicRand(3, 0, FALSE), PeriodicRand(3, 2, FALSE)>>}

Schedulers == {[base |-> b, layers |-> l] : b \in BaseSchedulers, l \in LayerStacks}

RngSeeds == {7}

NoCall == CallRecord("none", <<>>, "ok", "", <<>>)

NoCycle == [valid |-> FALSE, plaintext |-> <<>>, ciphertext |-> <<>>, again |-> FALSE]

\* Encryptor::new: the key reduced, no plaintext length stored
EncInit ==
    /\ key \in {reduce_key(k) : k \in Keys}
    /\ keyschedule \in Schedulers
    /\ rng \in {RngOf(s) : s \in RngSeeds}
    /\ prev_plaintext_length = None
    /\ enc_call = NoCall
    /\ enc_cycle = NoCycle

\* what a caller may hand to decrypt: the output of the last encrypt, or a
\* text from elsewhere
Ciphertexts ==
    ForeignCiphertexts \cup (IF enc_cycle.valid THEN {enc_cycle.ciphertext} ELSE {})

\* an Encryptor nobody calls
EncIdle ==
    /\ key = <<>>
    /\ keyschedule = [base |-> BaseRepeatingKey, layers |-> <<>>]
    /\ rng = RngOf(1)
    /\ prev_plaintext_length = None
    /\ enc_call = NoCall
    /\ enc_cycle = NoCycle

-----------------------------------------------------------------------------
(* rng.rs and the from_rng constructors the producer and the workers use *)

\* `rng.next() as usize`, before the `% n` of the caller
RngUsize(r) == RngNext(r).value + 128

\* Rng::choose over a slice of n items: the index chosen
Choose(r, n) == [index |-> RngUsize(r) % n, rng |-> RngNext(r).rng]

\* the generator after n more draws
RngSkip(r, n) == [r EXCEPT !.draws = @ + n]

\* Aab::from_rng: three draws
AabFromRng(r) ==
    [sched |-> BaseAab(RngUsize(r) % 32, RngUsize(RngSkip(r, 1)) % 8,
                       RngUsize(RngSkip(r, 2)) % 8),
     rng |-> RngSkip(r, 3)]

\* OffsetReverse::from_rng: one draw
OffsetReverseFromRng(r) ==
    [sched |-> BaseOffsetReverse(RngUsize(r) % 17), rng |-> RngSkip(r, 1)]

\* RandomBaseScheduler::from_rng
RandomBaseFromRng(r) ==
    LET c == Choose(r, 4)
    IN  CASE c.index = 0 -> AabFromRng(c.rng)
          [] c.index = 1 -> [sched |-> BaseLengthMod, rng |-> c.rng]
          [] c.index = 2 -> OffsetReverseFromRng(c.rng)
          [] OTHER -> [sched |-> BaseRepeatingKey, rng |-> c.rng]

\* RandomScheduler::from_rng: choose(&[0]) always takes the Zero arm
RandomSchedulerFromRng(r) ==
    LET c == Choose(r, 1)
        b == RandomBaseFromRng(c.rng)
    IN  [sched |-> [base |-> b.sched, layers |-> <<>>], rng |-> b.rng]

\* Key::from_rng: the length of the key generated
KeyLenFromRng(r) == (RngUsize(r) % 19) + 5

-----------------------------------------------------------------------------
(* main.rs and crack/worker.rs: the producer, the workers, the collector *)

VARIABLES
    cpus,           \* num_cpus::get()
    sched_chan,     \* the bounded channel of scheduler descriptors
    results_chan,   \* the unbounded channel of results
    producer,       \* the thread of main.rs lines 28-39
    workers,        \* the CrackWorker threads
    collector,      \* the main thread, from line 49 on
    running,        \* the AtomicBool the ctrl-c handler clears
    stats,          \* main.rs line 46
    sent,           \* how many descriptors the producer has enqueued
    received        \* which worker received which descriptor

poolVars ==
    <<cpus, sched_chan, results_chan, producer, workers, collector, running,
      stats, sent, received>>

\* bounded(128)
CAP == 128

MaxSent == 131

MaxJobs == 2

\* hardware parallelism; spawn_workers gets cpus - 2
CpuCounts == {2, 3, 4}

\* best_test1_score of an attempt that picked the right plaintext, in
\* hundredths: one representative value
Scores == {40}

SendError == "called Result::unwrap() on an Err value: SendError"

RecvError == "called Result::unwrap() on an Err value: RecvError"

WrongPick == "didn't pick the right plaintext"

Thread(pc, msg) == [pc |-> pc, msg |-> msg]

NumWorkers == cpus - 2

WorkerIds == 1 .. NumWorkers

\* the process is gone once main has returned or panicked
ProcessAlive == collector.pc \notin {"panicked", "exited"}

\* Receivers of the work queue: one per worker that has not unwound
SchedReceivers == {w \in WorkerIds : workers[w].pc # "panicked"}

\* Senders of the work queue: the one the producer thread owns
SchedSenders == IF producer.pc = "panicked" THEN 0 ELSE 1

\* Senders of the result queue: one per worker that has not unwound
ResultSenders == {w \in WorkerIds : workers[w].pc # "panicked"}

\* the Receiver of the result queue lives in main until main returns
ResultReceiverAlive == collector.pc \notin {"done", "panicked", "exited"}

\* a channel that takes any number of descriptors
ChanNeverFull(q) == FALSE

\* the bounded channel has no free slot
ChanFull(q) == Len(q) >= CAP

ZeroStats == [i \in 0 .. 8 |-> [n |-> 0, total |-> 0]]

\* the state main has built when it reaches line 49 on a machine with n cpus
PoolStart(n) ==
    /\ cpus = n
    /\ sched_chan = <<>>
    /\ results_chan = <<>>
    /\ producer = [pc |-> "gen", msg |-> "", rng |-> RngOf(37),
                   sched |-> [base |-> BaseRepeatingKey, layers |-> <<>>], left |-> 0]
    /\ workers = [w \in 1 .. (n - 2) |->
                    [pc |-> "recv", msg |-> "", rng |-> RngOf(RngUsize(RngSkip(RngOf(0), w - 1))),
                     item |-> 0, result |-> <<>>, scenario |-> "", spell_checked |-> FALSE,
                     results_sent |-> 0]]
    /\ collector = Thread("load", "")
    /\ running = TRUE
    /\ stats = ZeroStats
    /\ sent = 0
    /\ received = {}

PoolInit == \E n \in CpuCounts : PoolStart(n)

PoolIdle == PoolStart(2)

\* main.rs line 32: the next RandomScheduler, to be sent five times
ProducerGen ==
    /\ ProcessAlive
    /\ producer.pc = "gen"
    /\ sent < MaxSent
    /\ LET g == RandomSchedulerFromRng(producer.rng)
       IN  producer' = [producer EXCEPT !.pc = "send", !.rng = g.rng,
                                        !.sched = g.sched, !.left = 5]
    /\ UNCHANGED <<cpus, sched_chan, results_chan, workers, collector, running,
                   stats, sent, received>>

\* main.rs line 36: schedules.send(sched.clone()).unwrap()
ProducerSend ==
    /\ ProcessAlive
    /\ producer.pc = "send"
    /\ IF SchedReceivers = {}
       THEN /\ producer' = [producer EXCEPT !.pc = "panicked", !.msg = SendError]
            /\ UNCHANGED <<sched_chan, sent>>
       ELSE /\ ~ChanFull(sched_chan)
            /\ sent < MaxSent
            /\ sched_chan' = Append(sched_chan, [id |-> sent + 1, sched |-> producer.sched])
            /\ sent' = sent + 1
            /\ producer' = [producer EXCEPT !.left = @ - 1,
                                            !.pc = IF producer.left = 1 THEN "gen" ELSE "send"]
    /\ UNCHANGED <<cpus, results_chan, workers, collector, running, stats, received>>

\* worker.rs line 77: self.schedulers.recv().unwrap()
WorkerRecv(w) ==
    /\ ProcessAlive
    /\ workers[w].pc = "recv"
    /\ IF sched_chan # <<>>
       THEN /\ Cardinality(received) < MaxJobs
            /\ workers' = [workers EXCEPT ![w].pc = "crack", ![w].item = Head(sched_chan)]
            /\ sched_chan' = Tail(sched_chan)
            /\ received' = received \cup {[id |-> Head(sched_chan).id, worker |-> w]}
       ELSE /\ SchedSenders = 0
            /\ workers' = [workers EXCEPT ![w].pc = "panicked", ![w].msg = RecvError]
            /\ UNCHANGED <<sched_chan, received>>
    /\ UNCHANGED <<cpus, results_chan, producer, collector, running, stats, sent>>

\* worker.rs line 87: the slice rng.choose picks the kind of plaintext from;
\* true is a known plaintext (test 1), false a generated one (test 2)
ScenarioChoices == <<TRUE, TRUE>>

\* worker.rs lines 87-93: the kind of plaintext of the attempt, after the
\* draws of Key::from_rng (r) and the six of Rng::from_rng; a known
\* plaintext takes one more draw, which of them
ScenarioFromRng(r) ==
    LET c == Choose(RngSkip(r, 6), Len(ScenarioChoices))
    IN  IF ScenarioChoices[c.index + 1]
        THEN [scenario |-> "A", rng |-> RngSkip(c.rng, 1)]
        ELSE [scenario |-> "B", rng |-> c.rng]

\* worker.rs lines 79-139: key, encryptor, plaintext, ciphertext, the cracks
\* and the pick among the known plaintexts; the assertion of line 136 passes
\* with some best_test1_score or fails.  The spell checking of lines 156-158
\* is behind the continue of line 147 and never runs
WorkerCrack(w) ==
    /\ ProcessAlive
    /\ workers[w].pc = "crack"
    /\ LET keylen == KeyLenFromRng(workers[w].rng)
           s == ScenarioFromRng(RngSkip(workers[w].rng, 1 + keylen))
       IN  \/ \E score \in Scores :
                workers' = [workers EXCEPT
                              ![w].pc = "send", ![w].rng = s.rng,
                              ![w].scenario = s.scenario, ![w].spell_checked = FALSE,
                              ![w].result = [sched |-> workers[w].item.sched,
                                             keylen |-> keylen, success |-> score]]
           \/ workers' = [workers EXCEPT ![w].pc = "panicked", ![w].rng = s.rng,
                                         ![w].scenario = s.scenario,
                                         ![w].msg = WrongPick]
    /\ UNCHANGED <<cpus, sched_chan, results_chan, producer, collector, running,
                   stats, sent, received>>

\* worker.rs lines 142-147: self.results.send(..).unwrap(); continue 'cracking
WorkerSend(w) ==
    /\ ProcessAlive
    /\ workers[w].pc = "send"
    /\ IF ResultReceiverAlive
       THEN /\ results_chan' = Append(results_chan, workers[w].result)
            /\ workers' = [workers EXCEPT ![w].pc = "recv", ![w].item = 0,
                                          ![w].result = <<>>,
                                          ![w].results_sent = @ + 1]
       ELSE /\ workers' = [workers EXCEPT ![w].pc = "panicked", ![w].msg = SendError]
            /\ UNCHANGED results_chan
    /\ UNCHANGED <<cpus, sched_chan, producer, collector, running, stats, sent, received>>

\* main.rs line 49: while running.load(..)
CollectorLoad ==
    /\ collector.pc = "load"
    /\ collector' = Thread(IF running THEN "recv" ELSE "print", "")
    /\ UNCHANGED <<cpus, sched_chan, results_chan, producer, workers, running,
                   stats, sent, received>>

\* main.rs lines 60-65: the stats row of the number of PeriodicRand layers
RandInd(sched) == Len(sched.layers) + 1

\* main.rs lines 71-76: the stats row of the base scheduler
BaseSchedInd(sched) ==
    CASE sched.base.kind = "Aab" -> 5
      [] sched.base.kind = "LengthMod" -> 6
      [] sched.base.kind = "OffsetReverse" -> 7
      [] OTHER -> 8

\* main.rs line 54: success as a percentage
SuccessPercent(score) == 100 - Min(score, 100)

\* statistics without the rows of the base schedulers
UpdateStatsNoBase(st, res) ==
    LET pct == SuccessPercent(res.success)
        rows == {0, RandInd(res.sched)}
    IN  [i \in 0 .. 8 |->
            IF i \in rows THEN [n |-> st[i].n + 1, total |-> st[i].total + pct]
            ELSE st[i]]

\* main.rs lines 57-80: the three rows a result adds to
UpdateStats(st, res) ==
    LET pct == SuccessPercent(res.success)
        rows == {0, RandInd(res.sched), BaseSchedInd(res.sched)}
    IN  [i \in 0 .. 8 |->
            IF i \in rows THEN [n |-> st[i].n + 1, total |-> st[i].total + pct]
            ELSE st[i]]

\* main.rs lines 51-86: results.recv().unwrap() and the bookkeeping
CollectorRecv ==
    /\ collector.pc = "recv"
    /\ IF results_chan # <<>>
       THEN /\ stats' = UpdateStats(stats, Head(results_chan))
            /\ results_chan' = Tail(results_chan)
            /\ collector' = Thread("load", "")
       ELSE /\ ResultSenders = {}
            /\ collector' = Thread("panicked", RecvError)
            /\ UNCHANGED <<stats, results_chan>>
    /\ UNCHANGED <<cpus, sched_chan, producer, workers, running, sent, received>>

\* main.rs lines 89-135: the statistics are printed
CollectorPrint ==
    /\ collector.pc = "print"
    /\ collector' = Thread("done", "")
    /\ UNCHANGED <<cpus, sched_chan, results_chan, producer, workers, running,
                   stats, sent, received>>

\* main.rs lines 135-136: main returns and the process exits
MainReturn ==
    /\ collector.pc = "done"
    /\ collector' = Thread("exited", "")
    /\ UNCHANGED <<cpus, sched_chan, results_chan, producer, workers, running,
                   stats, sent, received>>

\* main.rs line 44: the ctrl-c handler
SigInt ==
    /\ ProcessAlive
    /\ running
    /\ running' = FALSE
    /\ UNCHANGED <<cpus, sched_chan, results_chan, producer, workers, collector,
                   stats, sent, received>>

-----------------------------------------------------------------------------
(* f32 and f64 values.  A float is NaN or a fixed-point number: v counts    *)
(* units of 1/FScale.  Sums, differences and comparisons are exact on v;   *)
(* a division truncates to the unit.                                        *)

FScale == 1000

NaN == [nan |-> TRUE, v |-> 0]

F(v) == [nan |-> FALSE, v |-> v]

\* an integer as a float
FInt(n) == F(n * FScale)

\* a as f32 / b as f32 for counts a, b: 0/0 is NaN
FDivInt(a, b) == IF b = 0 THEN NaN ELSE F((a * FScale) \div b)

\* x / n for a float x and a positive count n
FDivBy(x, n) ==
    IF x.nan \/ n = 0 THEN NaN
    ELSE F(IF x.v >= 0 THEN x.v \div n ELSE -((-x.v) \div n))

FAdd(x, y) == IF x.nan \/ y.nan THEN NaN ELSE F(x.v + y.v)

FSub(x, y) == IF x.nan \/ y.nan THEN NaN ELSE F(x.v - y.v)

FAbs(x) == IF x.nan THEN NaN ELSE F(Abs(x.v))

\* x * n for a float x and an integer n
FMulInt(x, n) == IF x.nan THEN NaN ELSE F(x.v * n)

\* x * y for two floats
FMul(x, y) ==
    IF x.nan \/ y.nan THEN NaN
    ELSE LET p == ((Abs(x.v) \div FScale) * Abs(y.v))
                    + (((Abs(x.v) % FScale) * Abs(y.v)) \div FScale)
         IN  F(IF (x.v < 0) = (y.v < 0) THEN p ELSE -p)

\* partial_cmp: None when either side is NaN
partial_cmp(x, y) ==
    IF x.nan \/ y.nan THEN "None"
    ELSE IF x.v < y.v THEN "Less"
    ELSE IF x.v = y.v THEN "Equal"
    ELSE "Greater"

\* the < of f32: false when either side is NaN
FLess(x, y) == partial_cmp(x, y) = "Less"

\* the sequence <<Op(lo), ..., Op(hi)>>, as .map(Op).collect() builds it
RECURSIVE Tabulate(_, _, _)
Tabulate(Op(_), lo, hi) ==
    IF lo > hi THEN <<>>
    ELSE IF lo = hi THEN <<Op(lo)>>
    ELSE LET mid == (lo + hi) \div 2
         IN  Tabulate(Op, lo, mid) \o Tabulate(Op, mid + 1, hi)

\* .sum() over xs[lo .. hi], added in halves
RECURSIVE FSumRange(_, _, _)
FSumRange(xs, lo, hi) ==
    IF lo > hi THEN F(0)
    ELSE IF lo = hi THEN xs[lo]
    ELSE LET mid == (lo + hi) \div 2
         IN  FAdd(FSumRange(xs, lo, mid), FSumRange(xs, mid + 1, hi))

FSum(xs) == FSumRange(xs, 1, Len(xs))

-----------------------------------------------------------------------------
(* crack/crack_known_keylength.rs *)

\* how often symbol b occurs in bytes
CountOf(bytes, b) == Cardinality({k \in 1 .. Len(bytes) : bytes[k] = b})

\* Frequencies::from_bytes: entry i + 1 is the frequency of symbol i
from_bytes(bytes) == [i \in 1 .. ALPHALEN |-> FDivInt(CountOf(bytes, i - 1), Len(bytes))]

\* all the words of a dictionary in one text
RECURSIVE Concat(_)
Concat(words) == IF words = <<>> THEN <<>> ELSE Head(words) \o Concat(Tail(words))

\* Frequencies::from_dict: letters counted over the words, one space per word
from_dict(words) ==
    LET text == Concat(words)
        count(i) == IF i = ALPHALEN - 1 THEN Len(words) ELSE CountOf(text, i)
        total == Len(text) + Len(words)
    IN  [i \in 1 .. ALPHALEN |-> FDivInt(count(i - 1), total)]

\* Frequencies::compare: the sum of the absolute differences
compare(self, other) ==
    FSum([i \in 1 .. Min(Len(self), Len(other)) |-> FAbs(FSub(other[i], self[i]))])

CrackResult(plaintext, confidence) == [plaintext |-> plaintext, confidence |-> confidence]

Ok(val) == [ok |-> TRUE, val |-> val]

Panic(msg) == [ok |-> FALSE, val |-> msg]

UnwrapNone == "called Option::unwrap() on a None value"

\* Iterator::min_by over results[i..]: best is the minimum so far, replaced
\* only by a strictly smaller element; the comparison is unwrapped
RECURSIVE MinByFrom(_, _, _)
MinByFrom(results, i, best) ==
    IF i > Len(results) THEN Ok(best)
    ELSE LET c == partial_cmp(best.confidence, results[i].confidence)
         IN  IF c = "None" THEN Panic(UnwrapNone)
             ELSE MinByFrom(results, i + 1, IF c = "Greater" THEN results[i] ELSE best)

\* a min_by that keeps the last of several minima
RECURSIVE MinByLastFrom(_, _, _)
MinByLastFrom(results, i, best) ==
    IF i > Len(results) THEN Ok(best)
    ELSE LET c == partial_cmp(best.confidence, results[i].confidence)
         IN  IF c = "None" THEN Panic(UnwrapNone)
             ELSE MinByLastFrom(results, i + 1, IF c = "Less" THEN best ELSE results[i])

\* best_crack that returns the last of several best results
best_crack_last(crackresults) ==
    IF crackresults = <<>> THEN Panic("assertion failed: !crackresults.is_empty()")
    ELSE MinByLastFrom(crackresults, 2, crackresults[1])

\* best_crack: the first result of smallest confidence
best_crack(crackresults) ==
    IF crackresults = <<>> THEN Panic("assertion failed: !crackresults.is_empty()")
    ELSE MinByFrom(crackresults, 2, crackresults[1])

\* the symbols of ciphertext[lo .. hi] that slice pushes into one bucket, in
\* the order of the pass over the ciphertext
RECURSIVE BucketOf(_, _, _, _, _)
BucketOf(ciphertext, keylength, bucket, lo, hi) ==
    IF lo > hi THEN <<>>
    ELSE IF lo = hi
         THEN IF (lo - 1) % keylength = bucket THEN <<ciphertext[lo]>> ELSE <<>>
    ELSE LET mid == (lo + hi) \div 2
         IN  BucketOf(ciphertext, keylength, bucket, lo, mid)
             \o BucketOf(ciphertext, keylength, bucket, mid + 1, hi)

\* slice: position i goes to bucket i % keylength
slice(ciphertext, keylength) ==
    IF keylength = 0
    THEN IF ciphertext = <<>> THEN Ok(<<>>)
         ELSE Panic("attempt to calculate the remainder with a divisor of zero")
    ELSE LET bucket(b) == BucketOf(ciphertext, keylength, b - 1, 1, Len(ciphertext))
         IN  Ok(Tabulate(bucket, 1, keylength))

\* crack.rs slice: block i is skip(i).step_by(keylength)
slice_step_by(ciphertext, keylength, debug_assertions) ==
    LET block(i) == [k \in 1 .. ((Len(ciphertext) - i + keylength) \div keylength) |->
                        ciphertext[i + ((k - 1) * keylength)]]
    IN  IF keylength = 0 /\ Len(ciphertext) # 0 /\ debug_assertions
        THEN Panic("total chars same as original ciphertext length!")
        ELSE Ok(Tabulate(block, 1, keylength))

\* unslice, row i: the symbol of each of the blocks lo .. hi that has one at
\* index i
RECURSIVE UnsliceRow(_, _, _, _)
UnsliceRow(pt_blocks, i, lo, hi) ==
    IF lo > hi THEN <<>>
    ELSE IF lo = hi
         THEN IF i <= Len(pt_blocks[lo]) THEN <<pt_blocks[lo][i]>> ELSE <<>>
    ELSE LET mid == (lo + hi) \div 2
         IN  UnsliceRow(pt_blocks, i, lo, mid) \o UnsliceRow(pt_blocks, i, mid + 1, hi)

\* unslice, rows lo .. hi
RECURSIVE UnsliceRows(_, _, _)
UnsliceRows(pt_blocks, lo, hi) ==
    IF lo > hi THEN <<>>
    ELSE IF lo = hi THEN UnsliceRow(pt_blocks, lo, 1, Len(pt_blocks))
    ELSE LET mid == (lo + hi) \div 2
         IN  UnsliceRows(pt_blocks, lo, mid) \o UnsliceRows(pt_blocks, mid + 1, hi)

\* an unslice that takes the number of rows from the last block
unslice_last_block(pt_blocks, keylength) ==
    IF Len(pt_blocks) = 0 THEN Panic("index out of bounds")
    ELSE Ok(UnsliceRows(pt_blocks, 1, Len(pt_blocks[Len(pt_blocks)])))

\* unslice: rows 0 .. pt_blocks[0].len(), every block in turn
unslice(pt_blocks, keylength) ==
    IF Len(pt_blocks) = 0 THEN Panic("index out of bounds")
    ELSE Ok(UnsliceRows(pt_blocks, 1, Len(pt_blocks[1])))

\* crack_block: the 27 shifts of the block, the best of them
crack_block(cipherblock, baseline) ==
    LET attempt(s) == LET plaintext == ShiftAll(cipherblock, s - 1)
                      IN  CrackResult(plaintext, compare(baseline, from_bytes(plaintext)))
    IN  best_crack(Tabulate(attempt, 1, ALPHALEN))

\* crack: slice, crack every block, unslice, sum the confidences
crack(ciphertext, keylength, baseline) ==
    LET ct_blocks == slice(ciphertext, keylength)
    IN  IF ~ct_blocks.ok THEN ct_blocks
        ELSE LET block(b) == crack_block(ct_blocks.val[b], baseline)
                 crack_results == Tabulate(block, 1, Len(ct_blocks.val))
             IN  IF \E b \in 1 .. Len(crack_results) : ~crack_results[b].ok
                 THEN Panic(UnwrapNone)
                 ELSE LET pt(b) == crack_results[b].val.plaintext
                          plaintext == unslice(Tabulate(pt, 1, Len(crack_results)), keylength)
                      IN  IF ~plaintext.ok THEN plaintext
                          ELSE Ok(CrackResult(plaintext.val,
                                              FSum([b \in 1 .. Len(crack_results) |->
                                                      crack_results[b].val.confidence])))

-----------------------------------------------------------------------------
(* crack/keylength.rs *)

KEYSIZE_LO == 3

KEYSIZE_HI == 70

\* the sum of Op(lo), ..., Op(hi), added in halves
RECURSIVE SumOver(_, _, _)
SumOver(Op(_), lo, hi) ==
    IF lo > hi THEN 0
    ELSE IF lo = hi THEN Op(lo)
    ELSE LET mid == (lo + hi) \div 2
         IN  SumOver(Op, lo, mid) + SumOver(Op, mid + 1, hi)

\* (a ^ b).count_ones() for two u8
XorCountOnes(a, b) ==
    Cardinality({k \in 0 .. 7 : ((a \div (2 ^ k)) % 2) # ((b \div (2 ^ k)) % 2)})

\* hamming_distance: the differing bits of two slices of equal length
hamming_distance(a, b) ==
    SumOver(LAMBDA i : XorCountOnes(a[i], b[i]), 1, Min(Len(a), Len(b)))

\* hamming_distance_between_chunks: every pair ii <= jj of the whole chunks,
\* divided by the number of chunks
hamming_distance_between_chunks(input, chunksize) ==
    LET n == Len(input) \div chunksize
        chunk(c) == SubSeq(input, ((c - 1) * chunksize) + 1, c * chunksize)
        row(ii) == SumOver(LAMBDA jj : hamming_distance(chunk(ii), chunk(jj)), ii, n)
        distance == SumOver(row, 1, n)
    IN  FDivInt(distance, n)

\* a / b for two floats, digit by digit; b is not zero where the estimator
\* divides
FDiv(a, b) ==
    IF a.nan \/ b.nan \/ b.v = 0 THEN NaN
    ELSE LET n == Abs(a.v)
             d == Abs(b.v)
             r1 == (n % d) * 10
             r2 == (r1 % d) * 10
             r3 == (r2 % d) * 10
             q == ((n \div d) * FScale) + ((r1 \div d) * 100) + ((r2 \div d) * 10)
                    + (r3 \div d)
         IN  F(IF (a.v < 0) = (b.v < 0) THEN q ELSE -q)

\* linreg::lin_reg: slope and intercept, an error when the slope is NaN
lin_reg(xys, x_mean, y_mean) ==
    LET n == Len(xys)
        dx(i) == FSub(xys[i].x, x_mean)
        xxm2 == FSum(Tabulate(LAMBDA i : FMul(dx(i), dx(i)), 1, n))
        xmym2 == FSum(Tabulate(LAMBDA i : FMul(dx(i), FSub(xys[i].y, y_mean)), 1, n))
        slope == FDiv(xmym2, xxm2)
    IN  IF slope.nan THEN Panic("called Result::unwrap() on an Err value: TooSteep")
        ELSE Ok([m |-> slope, b |-> FSub(y_mean, FMul(slope, x_mean))])

\* sort_by with partial_cmp().unwrap(): a stable sort, entry i goes behind
\* the entries that are smaller and the equal ones that come before it
sort_by_score(keysizes) ==
    LET n == Len(keysizes)
        before(j, i) == \/ FLess(keysizes[j].score, keysizes[i].score)
                        \/ (keysizes[j].score = keysizes[i].score /\ j < i)
        rank(i) == Cardinality({j \in 1 .. n : before(j, i)}) + 1
        at(r) == keysizes[CHOOSE i \in 1 .. n : rank(i) = r]
    IN  IF \E i \in 1 .. n : keysizes[i].score.nan THEN Panic(UnwrapNone)
        ELSE Ok(Tabulate(at, 1, n))

\* guesses: the raw scores of the periods, the line through them, the scores
\* with the line taken out and divided by the period, sorted
guesses(ciphertext) ==
    LET raw(keysize) == [keysize |-> keysize,
                         score |-> hamming_distance_between_chunks(ciphertext, keysize)]
        keysizes == Tabulate(raw, KEYSIZE_LO, KEYSIZE_HI - 1)
        n == Len(keysizes)
        xy == Tabulate(LAMBDA i : [x |-> FInt(keysizes[i].keysize), y |-> keysizes[i].score],
                       1, n)
        xmean == FDivBy(FSum(Tabulate(LAMBDA i : xy[i].x, 1, n)), n)
        ymean == FDivBy(FSum(Tabulate(LAMBDA i : xy[i].y, 1, n)), n)
        line == lin_reg(xy, xmean, ymean)
        undo(i) == LET x == FInt(keysizes[i].keysize)
                       y == keysizes[i].score
                   IN  [keysize |-> keysizes[i].keysize,
                        score |-> FDiv(FAdd(FSub(y, line.val.b), FMul(line.val.m, x)), x)]
    IN  IF ~line.ok THEN line
        ELSE sort_by_score(Tabulate(undo, 1, n))

-----------------------------------------------------------------------------
(* dict.rs and crack/spellcheck.rs *)

\* BytesDictionary::from_dict: every word with a space behind it
BytesDictionary(words) == [i \in 1 .. Len(words) |-> Append(words[i], ALPHALEN - 1)]

\* a loop over lo .. hi that carries a state (a record): Step(st, i) is one
\* iteration; the state is computed before the iterations that follow it
RECURSIVE FoldRange(_, _, _, _)
FoldRange(Step(_, _), st, lo, hi) ==
    IF lo > hi \/ DOMAIN st = {} THEN st
    ELSE IF lo = hi THEN Step(st, lo)
    ELSE LET mid == (lo + hi) \div 2
         IN  FoldRange(Step, FoldRange(Step, st, lo, mid), mid + 1, hi)

\* levenshtein, the inner loop for the i-th element of a (i from 0): the
\* state holds result, distance_b and the entries of cache written so far;
\* cache is the row before
LevRow(a_elem, b, cache, i) ==
    LET step(st, j) ==
            LET cost == IF a_elem = b[j] THEN 0 ELSE 1
                distance_a == st.distance_b + cost
                distance_b == cache[j]
                result == Min(st.result + 1, Min(distance_a, distance_b + 1))
            IN  [result |-> result, distance_b |-> distance_b,
                 cache |-> Append(st.cache, result)]
    IN  FoldRange(step, [result |-> i + 1, distance_b |-> i, cache |-> <<>>],
                  1, Min(Len(b), Len(cache)))

\* levenshtein: the edit distance of two sequences
levenshtein(a, b) ==
    IF Len(a) = 0 THEN Len(b)
    ELSE LET row(st, i) == LevRow(a[i], b, st.cache, i - 1)
         IN  FoldRange(row, [result |-> 0, distance_b |-> 0,
                             cache |-> [j \in 1 .. Len(b) |-> j]],
                       1, Len(a)).result

\* a min_by_key that returns the last word at the least distance
FirstMin_last(words, distances) ==
    LET best == CHOOSE i \in 1 .. Len(distances) :
                    \A k \in 1 .. Len(distances) :
                        \/ distances[i] < distances[k]
                        \/ distances[i] = distances[k] /\ k <= i
    IN  [word |-> words[best], score |-> distances[best]]

\* min_by_key over the distances: the first word at the least distance
FirstMin(words, distances) ==
    LET best == CHOOSE i \in 1 .. Len(distances) :
                    \A k \in 1 .. Len(distances) :
                        \/ distances[i] < distances[k]
                        \/ distances[i] = distances[k] /\ i <= k
    IN  [word |-> words[best], score |-> distances[best]]

\* BytesDictionary::best_levenshtein: the first word at the least distance,
\* with that distance
best_levenshtein(words, word) ==
    IF Len(words) = 0 THEN Panic("spell correct with an empty Dictionary")
    ELSE LET distance(i) == levenshtein(word, words[i])
         IN  Ok(FirstMin(words, Tabulate(distance, 1, Len(words))))

-----------------------------------------------------------------------------
(* crack/spellcheck.rs: the dictionary-guided re-segmentation               *)

Word(word, score, bytes_used) == [word |-> word, score |-> score, bytes_used |-> bytes_used]

\* a score that divides by the edit distance and 1
Word_score_eps1(self) == (self.bytes_used * 1000) \div (self.score + 1)

\* Word::score: (bytes_used / score * 1000.0) as usize; x / 0 is +infinity.
\* For bytes_used below 163 the f32 quotient times 1000 truncates to the
\* integer quotient of bytes_used * 1000 by score
Word_score(self) ==
    IF self.score = 0 THEN USIZE_MAX ELSE (self.bytes_used * 1000) \div self.score

\* the first of the greatest keys
LastMax_first(keys) ==
    CHOOSE i \in 1 .. Len(keys) :
        \A k \in 1 .. Len(keys) : keys[k] < keys[i] \/ (keys[k] = keys[i] /\ i <= k)

\* the last of the greatest keys
LastMax(keys) ==
    CHOOSE i \in 1 .. Len(keys) :
        \A k \in 1 .. Len(keys) : keys[k] < keys[i] \/ (keys[k] = keys[i] /\ k <= i)

\* max_by_key(Word::score): the last of the words of greatest score
max_by_key_score(next_words) ==
    LET key_of(i) == Word_score(next_words[i])
    IN  next_words[LastMax(Tabulate(key_of, 1, Len(next_words)))]

\* a pass that adds the best word and leaves next_slice where it is
SpellAdvanceNowhere(st, best) == [st EXCEPT !.plaintext = st.plaintext \o best.word]

\* spellcheck, the end of one pass of the while loop: the best word is
\* added and next_slice advances
SpellAdvance(st, best) ==
    [st EXCEPT !.plaintext = st.plaintext \o best.word, !.pos = st.pos + best.bytes_used]

\* spellcheck, picking the best of next_words
SpellPick(st, next_words) ==
    IF Len(next_words) = 0 THEN [st EXCEPT !.panic = TRUE]
    ELSE SpellAdvance(st, max_by_key_score(next_words))

\* spellcheck, the for loop over bytes_used in 1..rbound: next_words, the
\* best match of every prefix of next_slice, which starts behind pos symbols
SpellNextWords(near, words, longest, pos) ==
    LET next_word(bytes_used) ==
            LET m == best_levenshtein(words, SubSeq(near, pos + 1, pos + bytes_used))
            IN  Word(m.val.word, m.val.score, bytes_used)
    IN  Tabulate(next_word, 1, Min(longest, Len(near) - pos) - 1)

\* spellcheck, one pass of the while loop: st.pos symbols are consumed,
\* next_slice is the rest of the near-plaintext
SpellStep(near, words, longest, st) ==
    IF st.panic \/ Len(near) - st.pos <= 1 THEN st
    ELSE SpellPick(st, SpellNextWords(near, words, longest, st.pos))

\* the greatest of the lengths
MaxLen(lens) ==
    CHOOSE l \in {lens[i] : i \in 1 .. Len(lens)} : \A i \in 1 .. Len(lens) : lens[i] <= l

\* spellcheck, after plaintext.pop(): the confidence is the edit distance
\* to the near-plaintext times the confidence given
SpellResult(cracked, plaintext) ==
    CrackResult(plaintext,
                FMulInt(cracked.confidence, levenshtein(plaintext, cracked.plaintext)))

\* the end of a spellcheck that pops nothing
SpellEnd_nopop(cracked, end) ==
    IF end.panic THEN Panic(UnwrapNone)
    ELSE Ok(SpellResult(cracked, end.plaintext))

\* spellcheck, after the while loop
SpellEnd(cracked, end) ==
    IF end.panic THEN Panic(UnwrapNone)
    ELSE Ok(SpellResult(cracked, SubSeq(end.plaintext, 1, Len(end.plaintext) - 1)))

\* the length of the longest word of the dictionary, and 1
longest_word(words) ==
    LET word_len(i) == Len(words[i])
    IN  MaxLen(Tabulate(word_len, 1, Len(words))) + 1

\* spellcheck: the near-plaintext cut into dictionary words
spellcheck(cracked, words) ==
    IF Len(words) = 0 THEN Panic(UnwrapNone)
    ELSE LET pass(st, k) == SpellStep(cracked.plaintext, words, longest_word(words), st)
         IN  SpellEnd(cracked,
                      FoldRange(pass, [plaintext |-> <<>>, pos |-> 0, panic |-> FALSE],
                                1, Len(cracked.plaintext)))

-----------------------------------------------------------------------------
(* The column cracker on its own: slice, unslice, crack_block, crack *)

VARIABLES
    cr_ciphertext,   \* the ciphertext (for crack_block: the column)
    cr_keylength,    \* the period
    cr_baseline,     \* the baseline Frequencies
    cr_pc,           \* "input", or the operation that was applied
    cr_blocks,       \* what slice returned
    cr_unsliced,     \* what unslice returned for those blocks
    cr_result        \* what crack_block or crack returned

crackVars == <<cr_ciphertext, cr_keylength, cr_baseline, cr_pc, cr_blocks,
               cr_unsliced, cr_result>>

MaxCtLen == 3

MaxKeylen == 4

CrackSymbols == {0, 1, 2}

CrackTexts == UNION {[1 .. n -> CrackSymbols] : n \in 0 .. MaxCtLen}

Keylengths == 0 .. MaxKeylen

\* the Frequencies of two texts and of the empty text
Baselines == {from_bytes(<<1, 2>>), from_bytes(<<0, 0, 1>>), from_bytes(<<>>)}

NoResult == Panic("not called")

CrackStart(ciphertext, keylength, baseline) ==
    /\ cr_ciphertext = ciphertext
    /\ cr_keylength = keylength
    /\ cr_baseline = baseline
    /\ cr_pc = "input"
    /\ cr_blocks = NoResult
    /\ cr_unsliced = NoResult
    /\ cr_result = NoResult

CrackInit ==
    \E ciphertext \in CrackTexts, keylength \in Keylengths, baseline \in Baselines :
        CrackStart(ciphertext, keylength, baseline)

CrackIdle == CrackStart(<<>>, 1, from_bytes(<<1, 2>>))

\* crack_known_keylength.rs: unslice(slice(ciphertext, keylength), keylength)
CrackSlice ==
    /\ cr_pc = "input"
    /\ cr_pc' = "slice"
    /\ cr_blocks' = slice(cr_ciphertext, cr_keylength)
    /\ cr_unsliced' = IF cr_blocks'.ok THEN unslice(cr_blocks'.val, cr_keylength)
                      ELSE cr_blocks'
    /\ UNCHANGED <<cr_ciphertext, cr_keylength, cr_baseline, cr_result>>

\* crack.rs: unslice(slice(ciphertext, keylength), keylength), in a build
\* with or without debug assertions
CrackSliceStepBy ==
    /\ cr_pc = "input"
    /\ cr_pc' = "slice_step_by"
    /\ \E debug_assertions \in BOOLEAN :
          cr_blocks' = slice_step_by(cr_ciphertext, cr_keylength, debug_assertions)
    /\ cr_unsliced' = IF cr_blocks'.ok THEN unslice(cr_blocks'.val, cr_keylength)
                      ELSE cr_blocks'
    /\ UNCHANGED <<cr_ciphertext, cr_keylength, cr_baseline, cr_result>>

\* crack_block on the ciphertext as one column
CrackBlock ==
    /\ cr_pc = "input"
    /\ cr_pc' = "crack_block"
    /\ cr_result' = crack_block(cr_ciphertext, cr_baseline)
    /\ UNCHANGED <<cr_ciphertext, cr_keylength, cr_baseline, cr_blocks, cr_unsliced>>

\* Frequencies::from_bytes on the ciphertext
CrackFromBytes ==
    /\ cr_pc = "input"
    /\ cr_pc' = "from_bytes"
    /\ cr_result' = Ok(from_bytes(cr_ciphertext))
    /\ UNCHANGED <<cr_ciphertext, cr_keylength, cr_baseline, cr_blocks, cr_unsliced>>

\* crack with the period
CrackAll ==
    /\ cr_pc = "input"
    /\ cr_pc' = "crack"
    /\ cr_result' = crack(cr_ciphertext, cr_keylength, cr_baseline)
    /\ UNCHANGED <<cr_ciphertext, cr_keylength, cr_baseline, cr_blocks, cr_unsliced>>

-----------------------------------------------------------------------------
(* The keylength estimator on its own *)

VARIABLES
    kl_ciphertext,   \* the ciphertext given to guesses
    kl_pc,           \* "input" or "done"
    kl_guesses       \* what guesses returned

keylenVars == <<kl_ciphertext, kl_pc, kl_guesses>>

MaxKlShort == 6

\* a ciphertext of n symbols that repeats with period 5 up to a drift
LongText(n) == [i \in 1 .. n |-> ((7 * (i % 5)) + (i \div 11)) % ALPHALEN]

KlTexts ==
    UNION {[1 .. n -> {0, 1}] : n \in 0 .. MaxKlShort}
        \cup {LongText(n) : n \in {68, 69, 70, 135}}

KeylenStart(ciphertext) ==
    /\ kl_ciphertext = ciphertext
    /\ kl_pc = "input"
    /\ kl_guesses = NoResult

KeylenInit == \E ciphertext \in KlTexts : KeylenStart(ciphertext)

KeylenIdle == KeylenStart(<<>>)

KeylenGuesses ==
    /\ kl_pc = "input"
    /\ kl_pc' = "done"
    /\ kl_guesses' = guesses(kl_ciphertext)
    /\ UNCHANGED kl_ciphertext

-----------------------------------------------------------------------------
(* crack/cracker.rs: the driver, crack_single_ciphertext                    *)

VARIABLES
    dr_cipherbytes,        \* str_to_bytes(ciphertext)
    dr_plaintext,          \* the plaintext the harness encrypted
    dr_test1,              \* test1_known_plaintexts, as symbols
    dr_words,              \* the words of the dictionary, as symbols
    dr_pc,                 \* the position in crack_single_ciphertext
    dr_keylen_guesses,
    dr_known,              \* how many known plaintexts the Test 1 loop has done
    dr_best_test1_score,
    dr_distances,          \* per known plaintext done, the edit distance of
                           \* the crack of each keylen in 3..120
    dr_crack_results,
    dr_spell_checked,
    dr_best_after_spellcheck,
    dr_results             \* what was sent on results, or the panic

driverVars ==
    <<dr_cipherbytes, dr_plaintext, dr_test1, dr_words, dr_pc, dr_keylen_guesses,
      dr_known, dr_best_test1_score, dr_distances, dr_crack_results,
      dr_spell_checked, dr_best_after_spellcheck, dr_results>>

drInputs == <<dr_cipherbytes, dr_plaintext, dr_test1, dr_words>>

\* f32::MAX
F32_MAX == F(2147483647)

\* the keylens of the Test 1 loop, 3..120_usize
TEST1_LO == 3

TEST1_HI == 120

\* the threshold of Test 1, 0.8
TEST1_THRESHOLD == F(800)

\* Test 1, one pass of the loop over the keylens for one known plaintext
Test1Keylen(cipherbytes, known_pt, freqs, plaintext_len, st, keylen) ==
    IF ~st.ok THEN st
    ELSE LET c == crack(cipherbytes, keylen, freqs)
         IN  IF ~c.ok THEN [st EXCEPT !.ok = FALSE, !.msg = c.val]
             ELSE LET distance == levenshtein(c.val.plaintext, known_pt)
                      score == FDivInt(distance, plaintext_len)
                  IN  [st EXCEPT !.distances = Append(@, distance),
                                 !.best_score = IF FLess(score, @) THEN score ELSE @]

\* Test 1, the loop over the keylens for one known plaintext
Test1Known(cipherbytes, known_pt, plaintext_len) ==
    LET freqs == from_bytes(known_pt)
        pass(st, keylen) ==
            Test1Keylen(cipherbytes, known_pt, freqs, plaintext_len, st, keylen)
    IN  FoldRange(pass, [ok |-> TRUE, msg |-> "", distances |-> <<>>,
                         best_score |-> F32_MAX],
                  TEST1_LO, TEST1_HI - 1)

\* res.confidence *= keylen_confidence, without the multiplication
weigh_not(res, keylen_confidence) == CrackResult(res.plaintext, res.confidence)

\* res.confidence *= keylen_confidence
weigh(res, keylen_confidence) ==
    CrackResult(res.plaintext, FMul(res.confidence, keylen_confidence))

DriverStart(cipherbytes, plaintext, test1, words) ==
    /\ dr_cipherbytes = cipherbytes
    /\ dr_plaintext = plaintext
    /\ dr_test1 = test1
    /\ dr_words = words
    /\ dr_pc = "guesses"
    /\ dr_keylen_guesses = <<>>
    /\ dr_known = 0
    /\ dr_best_test1_score = F32_MAX
    /\ dr_distances = <<>>
    /\ dr_crack_results = <<>>
    /\ dr_spell_checked = <<>>
    /\ dr_best_after_spellcheck = None
    /\ dr_results = None

DriverIdle == DriverStart(<<>>, <<>>, <<>>, <<>>)

DriverPanic(msg) ==
    /\ dr_pc' = "panicked"
    /\ dr_results' = Panic(msg)

\* guesses(&cipherbytes, &mut keylen_guesses)
DriverGuesses ==
    /\ dr_pc = "guesses"
    /\ \E g \in {guesses(dr_cipherbytes)} :
           IF g.ok
           THEN /\ dr_keylen_guesses' = g.val
                /\ dr_pc' = "test1"
                /\ UNCHANGED dr_results
           ELSE /\ DriverPanic(g.val)
                /\ UNCHANGED dr_keylen_guesses
    /\ UNCHANGED <<drInputs, dr_known, dr_best_test1_score, dr_distances,
                   dr_crack_results, dr_spell_checked, dr_best_after_spellcheck>>

\* Test 1, one pass of the loop over test1_known_plaintexts
DriverTest1 ==
    /\ dr_pc = "test1"
    /\ dr_known < Len(dr_test1)
    /\ \E r \in {Test1Known(dr_cipherbytes, dr_test1[dr_known + 1], Len(dr_plaintext))} :
           IF r.ok
           THEN /\ dr_known' = dr_known + 1
                /\ dr_distances' = Append(dr_distances, r.distances)
                /\ dr_best_test1_score' =
                       IF FLess(r.best_score, dr_best_test1_score)
                       THEN r.best_score ELSE dr_best_test1_score
                /\ UNCHANGED <<dr_pc, dr_results>>
           ELSE /\ DriverPanic(r.msg)
                /\ UNCHANGED <<dr_known, dr_distances, dr_best_test1_score>>
    /\ UNCHANGED <<drInputs, dr_keylen_guesses, dr_crack_results, dr_spell_checked,
                   dr_best_after_spellcheck>>

\* Test 1, after the loop: below the threshold the score is sent and the
\* attempt is over
DriverTest1Done ==
    /\ dr_pc = "test1"
    /\ dr_known = Len(dr_test1)
    /\ IF FLess(dr_best_test1_score, TEST1_THRESHOLD)
       THEN /\ dr_results' = Ok([test |-> 1, score |-> dr_best_test1_score])
            /\ dr_pc' = "done"
       ELSE /\ dr_pc' = "crack"
            /\ UNCHANGED dr_results
    /\ UNCHANGED <<drInputs, dr_keylen_guesses, dr_known, dr_best_test1_score,
                   dr_distances, dr_crack_results, dr_spell_checked,
                   dr_best_after_spellcheck>>

\* Test 2, one pass of the loop over keylen_guesses
DriverCrack ==
    /\ dr_pc = "crack"
    /\ IF Len(dr_crack_results) = Len(dr_keylen_guesses)
       THEN /\ dr_pc' = "spellcheck"
            /\ UNCHANGED <<dr_crack_results, dr_results>>
       ELSE \E guess \in {dr_keylen_guesses[Len(dr_crack_results) + 1]} :
            \E res \in {crack(dr_cipherbytes, guess.keysize, from_dict(dr_words))} :
                IF res.ok
                THEN /\ dr_crack_results' =
                            Append(dr_crack_results, weigh(res.val, guess.score))
                     /\ UNCHANGED <<dr_pc, dr_results>>
                ELSE /\ DriverPanic(res.val)
                     /\ UNCHANGED dr_crack_results
    /\ UNCHANGED <<drInputs, dr_keylen_guesses, dr_known, dr_best_test1_score,
                   dr_distances, dr_spell_checked, dr_best_after_spellcheck>>

\* one pass of the loop over crack_results
DriverSpellcheck ==
    /\ dr_pc = "spellcheck"
    /\ IF Len(dr_spell_checked) = Len(dr_crack_results)
       THEN /\ dr_pc' = "best"
            /\ UNCHANGED <<dr_spell_checked, dr_results>>
       ELSE \E res \in {spellcheck(dr_crack_results[Len(dr_spell_checked) + 1],
                                     BytesDictionary(dr_words))} :
                IF res.ok
                THEN /\ dr_spell_checked' = Append(dr_spell_checked, res.val)
                     /\ UNCHANGED <<dr_pc, dr_results>>
                ELSE /\ DriverPanic(res.val)
                     /\ UNCHANGED dr_spell_checked
    /\ UNCHANGED <<drInputs, dr_keylen_guesses, dr_known, dr_best_test1_score,
                   dr_distances, dr_crack_results, dr_best_after_spellcheck>>

\* best_crack(&spell_checked), success, and the send
DriverBest ==
    /\ dr_pc = "best"
    /\ \E best \in {best_crack(dr_spell_checked)} :
           IF best.ok
           THEN /\ dr_best_after_spellcheck' = Some(best.val)
                /\ dr_results' =
                       Ok([spell_checked |-> dr_spell_checked,
                           success |-> FDivInt(levenshtein(best.val.plaintext, dr_plaintext),
                                               Len(dr_plaintext))])
                /\ dr_pc' = "done"
           ELSE /\ DriverPanic(best.val)
                /\ UNCHANGED dr_best_after_spellcheck
    /\ UNCHANGED <<drInputs, dr_keylen_guesses, dr_known, dr_best_test1_score,
                   dr_distances, dr_crack_results, dr_spell_checked>>

\* the inputs: a dictionary, plaintexts made of its words, and their
\* encryption under a repeating key
DrWords == <<<<7, 4, 11, 11, 14>>, <<22, 14, 17, 11, 3>>, <<8, 18>>, <<0>>>>

DrSentence == <<7, 4, 11, 11, 14, 26, 22, 14, 17, 11, 3, 26, 8, 18, 26, 0, 26>>

DrPlain(n) ==
    LET at(i) == DrSentence[((i - 1) % Len(DrSentence)) + 1]
    IN  Tabulate(at, 1, n)

DrKey == <<3, 1, 4>>

DrEncrypt(plaintext) ==
    LET at(i) == Shift(plaintext[i], DrKey[((i - 1) % Len(DrKey)) + 1])
    IN  Tabulate(at, 1, Len(plaintext))

DriverInput(n, test1, words) ==
    [cipherbytes |-> DrEncrypt(DrPlain(n)), plaintext |-> DrPlain(n),
     test1 |-> test1, words |-> words]

\* an unknown plaintext, an empty line among the known plaintexts,
\* ciphertexts too short for guesses, and an empty dictionary
DriverInputs ==
    {DriverInput(69, <<>>, DrWords), DriverInput(69, <<<<>>>>, DrWords),
     DriverInput(68, <<>>, DrWords), DriverInput(0, <<>>, DrWords),
     DriverInput(69, <<>>, <<>>)}

\* and a known plaintext, with a ciphertext too short and with one long
\* enough for the keylens of Test 1
DriverInputsTest1 ==
    DriverInputs \cup {DriverInput(69, <<DrPlain(69)>>, DrWords),
                       DriverInput(119, <<DrPlain(119)>>, DrWords)}

DriverInit ==
    \E in \in DriverInputs : DriverStart(in.cipherbytes, in.plaintext, in.test1, in.words)

DriverInitTest1 ==
    \E in \in DriverInputsTest1 :
        DriverStart(in.cipherbytes, in.plaintext, in.test1, in.words)

-----------------------------------------------------------------------------
(* The re-segmenter on its own: best_levenshtein, the passes of the while   *)
(* loop of spellcheck one by one, best_crack over a list of results         *)

VARIABLES
    sp_dict,         \* the words of the Dictionary, letters only
    sp_text,         \* the near-plaintext (for best_levenshtein: the probe)
    sp_cracks,       \* the results given to best_crack
    sp_pc,           \* "input", "loop", or the operation that has returned
    sp_st,           \* spellcheck: plaintext so far, symbols consumed
    sp_next_words,   \* spellcheck: next_words of the last pass
    sp_best,         \* spellcheck: best of the last pass
    sp_result        \* what the operation returned

spellVars == <<sp_dict, sp_text, sp_cracks, sp_pc, sp_st, sp_next_words, sp_best,
               sp_result>>

spInputs == <<sp_dict, sp_text, sp_cracks>>

MaxNear == 4

MaxCracks == 3

SPACE == ALPHALEN - 1

SpSymbols == {0, 1, SPACE}

\* "a bab a" and "abb b ab"
SpTexts ==
    UNION {[1 .. n -> SpSymbols] : n \in 0 .. MaxNear}
        \cup {<<0, SPACE, 1, 0, 1, SPACE, 0>>, <<0, 1, 1, SPACE, 1, SPACE, 0, 1>>}

\* no word; a, ab; ab, b, ba; a, abbab
SpDicts ==
    {<<>>, <<<<0>>, <<0, 1>>>>, <<<<0, 1>>, <<1>>, <<1, 0>>>>, <<<<0>>, <<0, 1, 1, 0, 1>>>>}

SpConfidences == {F(0), F(500)}

\* result i carries the plaintext <<i>>
SpCrackLists ==
    UNION {{[i \in 1 .. n |-> CrackResult(<<i>>, c[i])] : c \in [1 .. n -> SpConfidences]} :
             n \in 0 .. MaxCracks}

SpellStart(dict, text, cracks) ==
    /\ sp_dict = dict
    /\ sp_text = text
    /\ sp_cracks = cracks
    /\ sp_pc = "input"
    /\ sp_st = [plaintext |-> <<>>, pos |-> 0, panic |-> FALSE]
    /\ sp_next_words = <<>>
    /\ sp_best = None
    /\ sp_result = NoResult

SpellInit ==
    \/ \E dict \in SpDicts, text \in SpTexts : SpellStart(dict, text, <<>>)
    \/ \E cracks \in SpCrackLists : SpellStart(<<>>, <<>>, cracks)

SpellIdle == SpellStart(<<>>, <<>>, <<>>)

\* the CrackResult given to spellcheck
SpCracked == CrackResult(sp_text, FInt(2))

\* BytesDictionary::best_levenshtein on the text
SpellBestLevenshtein ==
    /\ sp_pc = "input"
    /\ sp_pc' = "best_levenshtein"
    /\ sp_result' = best_levenshtein(BytesDictionary(sp_dict), sp_text)
    /\ UNCHANGED <<spInputs, sp_st, sp_next_words, sp_best>>

\* best_crack on the list of results
SpellBestCrack ==
    /\ sp_pc = "input"
    /\ sp_pc' = "best_crack"
    /\ sp_result' = best_crack(sp_cracks)
    /\ UNCHANGED <<spInputs, sp_st, sp_next_words, sp_best>>

\* spellcheck up to the while loop: longest_word unwraps the maximum
SpellEnter ==
    /\ sp_pc = "input"
    /\ IF Len(sp_dict) = 0
       THEN sp_pc' = "panicked" /\ sp_result' = Panic(UnwrapNone)
       ELSE sp_pc' = "loop" /\ UNCHANGED sp_result
    /\ UNCHANGED <<spInputs, sp_st, sp_next_words, sp_best>>

\* spellcheck, one pass of the while loop
SpellIterate ==
    /\ sp_pc = "loop"
    /\ Len(sp_text) - sp_st.pos > 1
    /\ \E words \in {BytesDictionary(sp_dict)} :
       \E next_words \in {SpellNextWords(sp_text, words, longest_word(words), sp_st.pos)} :
          /\ sp_next_words' = next_words
          /\ sp_best' = IF Len(next_words) = 0 THEN None
                        ELSE Some(max_by_key_score(next_words))
          /\ sp_st' = SpellPick(sp_st, next_words)
          /\ sp_pc' = IF Len(next_words) = 0 THEN "panicked" ELSE "loop"
          /\ sp_result' = IF Len(next_words) = 0 THEN Panic(UnwrapNone) ELSE sp_result
    /\ UNCHANGED spInputs

\* spellcheck behind the while loop
SpellReturn ==
    /\ sp_pc = "loop"
    /\ Len(sp_text) - sp_st.pos <= 1
    /\ sp_pc' = "done"
    /\ sp_result' = SpellEnd(SpCracked, sp_st)
    /\ UNCHANGED <<spInputs, sp_st, sp_next_words, sp_best>>

-----------------------------------------------------------------------------
(* dict.rs, Dictionary::from_string, and the shift of utils.rs on its own.  *)
(* A char is its code point; a string is a sequence of chars.              *)

\* char::to_ascii_lowercase: 'A'..'Z' to 'a'..'z', every other char as it is
to_ascii_lowercase(chr) == IF chr \in 65 .. 90 THEN chr + 32 ELSE chr

\* char::is_ascii_whitespace: space, tab, line feed, form feed, carriage return
is_ascii_whitespace(chr) == chr \in {32, 9, 10, 12, 13}

\* char::is_alphabetic, the Alphabetic property of Unicode, for the code
\* points below 256: the ASCII letters and the letters of Latin-1
is_alphabetic(chr) ==
    chr \in (65 .. 90) \cup (97 .. 122) \cup {170, 181, 186} \cup (192 .. 214)
              \cup (216 .. 246) \cup (248 .. 255)

\* split_ascii_whitespace over source[lo .. hi]: the runs of chars that are
\* not whitespace; cur is the run that is open
RECURSIVE SplitFrom(_, _, _)
SplitFrom(source, lo, cur) ==
    IF lo > Len(source) THEN (IF cur = <<>> THEN <<>> ELSE <<cur>>)
    ELSE IF is_ascii_whitespace(source[lo])
         THEN (IF cur = <<>> THEN <<>> ELSE <<cur>>) \o SplitFrom(source, lo + 1, <<>>)
         ELSE SplitFrom(source, lo + 1, Append(cur, source[lo]))

split_ascii_whitespace(source) == SplitFrom(source, 1, <<>>)

\* the order of str: the first char that differs decides, a prefix is smaller
StrLess(a, b) ==
    \E i \in 1 .. Len(b) :
        /\ \A k \in 1 .. i - 1 : k <= Len(a) /\ a[k] = b[k]
        /\ i > Len(a) \/ (i <= Len(a) /\ a[i] < b[i])

\* words.sort(): a stable sort by the order of str
sort_words(words) ==
    LET n == Len(words)
        before(j, i) == StrLess(words[j], words[i]) \/ (words[j] = words[i] /\ j < i)
        rank(i) == Cardinality({j \in 1 .. n : before(j, i)}) + 1
        at(r) == words[CHOOSE i \in 1 .. n : rank(i) = r]
    IN  Tabulate(at, 1, n)

\* .filter(): the words Keep holds of, in their order
RECURSIVE FilterWords(_, _, _)
FilterWords(Keep(_), words, lo) ==
    IF lo > Len(words) THEN <<>>
    ELSE (IF Keep(words[lo]) THEN <<words[lo]>> ELSE <<>>) \o FilterWords(Keep, words, lo + 1)

\* Dictionary::from_string: lowercase, split at whitespace, keep the words
\* whose chars are all alphabetic, sort
from_string(source) ==
    LET lower == [i \in 1 .. Len(source) |-> to_ascii_lowercase(source[i])]
        alphabetic(word) == \A i \in 1 .. Len(word) : is_alphabetic(word[i])
    IN  sort_words(FilterWords(alphabetic, split_ascii_whitespace(lower), 1))

\* -amount for an i8: the negation of i8::MIN overflows, which panics in a
\* build with overflow checks and wraps in a build without
neg_i8(amount, overflow_checks) ==
    IF amount = -128
    THEN (IF overflow_checks THEN Panic("attempt to negate with overflow") ELSE Ok(-128))
    ELSE Ok(-amount)

\* a shift that does not reduce the sum into the alphabet
shift_u8_noreduce(self, amount, overflow_checks) ==
    Ok(self + RemEuclid(amount, ALPHALEN))

\* impl Shift for u8 with the width of its values: self + amount is a u8
shift_u8(self, amount, overflow_checks) ==
    IF self + RemEuclid(amount, ALPHALEN) > 255
    THEN (IF overflow_checks THEN Panic("attempt to add with overflow")
          ELSE Ok(RemEuclid((self + RemEuclid(amount, ALPHALEN)) % 256, ALPHALEN)))
    ELSE Ok(Shift(self, amount))

\* self.shift(amount).shift(-amount)
shift_back(self, amount, overflow_checks) ==
    LET there == shift_u8(self, amount, overflow_checks)
        minus == neg_i8(amount, overflow_checks)
    IN  IF ~there.ok THEN there
        ELSE IF ~minus.ok THEN minus
        ELSE shift_u8(there.val, minus.val, overflow_checks)

VARIABLES
    ut_source,       \* the string given to from_string
    ut_sym,          \* the symbol that is shifted
    ut_amount,       \* the shift amount, an i8
    ut_pc,           \* "input", or the operation that was applied
    ut_result        \* what the operation returned

utilVars == <<ut_source, ut_sym, ut_amount, ut_pc, ut_result>>

utInputs == <<ut_source, ut_sym, ut_amount>>

MaxSource == 4

\* 'a', 'b', 'A', '.', ' ', line feed, e with acute accent
UtChars == {97, 98, 65, 46, 32, 10, 233}

UtSources == UNION {[1 .. n -> UtChars] : n \in 0 .. MaxSource}

UtilStart(source, sym, amount) ==
    /\ ut_source = source
    /\ ut_sym = sym
    /\ ut_amount = amount
    /\ ut_pc = "input"
    /\ ut_result = NoResult

UtilInit ==
    \/ \E source \in UtSources : UtilStart(source, 0, 0)
    \/ \E sym \in Symbols, amount \in I8 : UtilStart(<<>>, sym, amount)

UtilIdle == UtilStart(<<>>, 0, 0)

\* Dictionary::from_string on the source
UtilFromString ==
    /\ ut_pc = "input"
    /\ ut_pc' = "from_string"
    /\ ut_result' = Ok(from_string(ut_source))
    /\ UNCHANGED utInputs

\* the symbol shifted by the amount and back by the negated amount, in a
\* build with or without overflow checks
UtilShiftBack ==
    /\ ut_pc = "input"
    /\ ut_pc' = "shift_back"
    /\ \E overflow_checks \in BOOLEAN :
          ut_result' = shift_back(ut_sym, ut_amount, overflow_checks)
    /\ UNCHANGED utInputs

-----------------------------------------------------------------------------
(* ciphers/mod.rs, testing: Encryptors built by from_rng run through         *)
(* test_one, encrypt and decrypt of generated plaintexts                     *)

MaxFrKeyLen == 6

NUM_WORDS_LO == 10

MaxNumWords == 11

\* Key::from_rng: a key of a generated length (5 and up), reduced by
\* reduce_key, that is returned when an entry is not zero
FromRngKeys ==
    {k \in UNION {[1 .. n -> {0, 1}] : n \in 5 .. MaxFrKeyLen} : \E i \in 1 .. Len(k) : k[i] # 0}

\* K::from_rng: Aab (num_chars below 32, num_reps and offset below 8),
\* OffsetReverse (offset below 17), LengthMod, RepeatingKey, under no layer
FromRngSchedulers ==
    {[base |-> b, layers |-> <<>>] :
        b \in {BaseAab(n, r, o) : n \in {0, 3}, r \in {0, 7}, o \in {0, 7}}
              \cup {BaseOffsetReverse(o) : o \in {0, 2, 16}}
              \cup {BaseLengthMod, BaseRepeatingKey}}

\* Generator::generate_words: the chosen words joined with a single space
RECURSIVE generate_words(_)
generate_words(sentence) ==
    IF Len(sentence) = 0 THEN <<>>
    ELSE IF Len(sentence) = 1 THEN sentence[1]
    ELSE sentence[1] \o <<SPACE>> \o generate_words(Tail(sentence))

\* the wordbank: "a" and "b"
FrDictionary == <<<<0>>, <<1>>>>

\* the words chosen: num_words of them, the first m "b", the others "a"
FrSentences ==
    {[i \in 1 .. num_words |-> FrDictionary[IF i <= m THEN 2 ELSE 1]] :
        num_words \in NUM_WORDS_LO .. MaxNumWords, m \in 0 .. 2}

FrPlaintexts == {generate_words(sentence) : sentence \in FrSentences}

\* Encryptor::from_rng: the key as Key::from_rng returns it, no plaintext
\* length stored
FromRngInit ==
    /\ key \in FromRngKeys
    /\ keyschedule \in FromRngSchedulers
    /\ rng \in {RngOf(s) : s \in RngSeeds}
    /\ prev_plaintext_length = None
    /\ enc_call = NoCall
    /\ enc_cycle = NoCycle

\* test_one: cipher.encrypt(&plaintext) on a generated plaintext
TestOneEncrypt ==
    /\ ~prev_plaintext_length.some
    /\ \E plaintext \in FrPlaintexts : Encrypt(plaintext)

\* test_one: cipher.decrypt(&ciphertext) on what encrypt returned
TestOneDecrypt ==
    /\ prev_plaintext_length.some
    /\ enc_call.op = "encrypt"
    /\ Decrypt(enc_call.ret)

-----------------------------------------------------------------------------
(* ciphers/schedulers/mod.rs: Encryptors over the schedulers RandomScheduler *)
(* holds, a base under up to three PeriodicRand layers as from_rng draws them *)

MaxLongWords == 18

\* PeriodicRand::from_rng: period 32 + (0..31), start 0..31, either mode
GenPeriodicRands == {PeriodicRand(p, s, o) : p \in {32, 63}, s \in {0, 1, 31}, o \in BOOLEAN}

\* the layers drawn first for RandomScheduler::Two and ::Three
GenInnerRands == {PeriodicRand(32, 0, o) : o \in BOOLEAN}

\* pr.period += n: "make period less frequent"
LessFrequent(pr, n) == [pr EXCEPT !.period = @ + n]

\* RandomScheduler::Zero, ::One, ::Two (periods + 8) and ::Three (periods + 16)
GenLayerStacks ==
    {<<>>} \cup {<<a>> : a \in GenPeriodicRands}
    \cup {<<LessFrequent(a, 8), LessFrequent(b, 8)>> : a, b \in GenInnerRands}
    \cup {<<LessFrequent(a, 16), LessFrequent(b, 16), LessFrequent(c, 16)>> :
             a, b, c \in GenInnerRands}

RandomSchedulers ==
    {[base |-> ks.base, layers |-> l] : ks \in FromRngSchedulers, l \in GenLayerStacks}

\* the fallback key of Key::from_rng and a key it generates
GenKeys == {<<1, 2, 3, 4>>, <<0, 26, 0, 13, 1>>}

\* the empty plaintext, one char, and sentences of "a"
GenPlaintexts ==
    {<<>>, <<0>>} \cup {generate_words([i \in 1 .. n |-> FrDictionary[1]]) :
                            n \in {NUM_WORDS_LO, MaxLongWords}}

RandomSchedulerInit ==
    /\ key \in GenKeys
    /\ keyschedule \in RandomSchedulers
    /\ rng \in {RngOf(s) : s \in RngSeeds}
    /\ prev_plaintext_length = None
    /\ enc_call = NoCall
    /\ enc_cycle = NoCycle

\* cipher.encrypt(&plaintext) on an Encryptor that has no encrypt pending
EncryptNext ==
    /\ ~prev_plaintext_length.some
    /\ \E plaintext \in GenPlaintexts : Encrypt(plaintext)

-----------------------------------------------------------------------------
(* ciphers/schedulers: one call of KeySchedule::schedule on a scheduler value *)

VARIABLES
    sc_ks,                 \* the scheduler: a base under its PeriodicRand layers
    sc_index,              \* the position that is scheduled
    sc_key_length,         \* the length of the key
    sc_plaintext_length,   \* the length of the plaintext
    sc_overflow_checks,    \* whether the build checks usize arithmetic
    sc_pc,                 \* "input", or "schedule" once the call was made
    sc_result              \* the NextKey the call returned, or the panic

schedVars == <<sc_ks, sc_index, sc_key_length, sc_plaintext_length, sc_overflow_checks,
               sc_pc, sc_result>>

scInputs == <<sc_ks, sc_index, sc_key_length, sc_plaintext_length, sc_overflow_checks>>

MaxIndex == 28

MaxKeyLength == 7

\* the fields of Aab are public: any usize
ScAabs == {BaseAab(n, r, o) : n \in 0 .. 3, r \in {0, 1, 2, USIZE_MAX}, o \in {0, 1, 4}}

ScBases == ScAabs \cup {BaseRepeatingKey, BaseLengthMod}
               \cup {BaseOffsetReverse(o) : o \in {0, 2, 16}}

ScInnerBases == {BaseRepeatingKey, BaseLengthMod, BaseAab(3, 2, 1), BaseOffsetReverse(2)}

\* the fields of PeriodicRand are public: any usize, any bool
ScPeriodicRands == {PeriodicRand(p, s, o) : p \in {0, 1, 3, 4}, s \in {0, 1, 4}, o \in BOOLEAN}

ScLayerStacks == {<<l>> : l \in ScPeriodicRands}
                     \cup {<<PeriodicRand(3, 1, FALSE), PeriodicRand(4, 0, FALSE)>>,
                           <<PeriodicRand(3, 0, TRUE), PeriodicRand(3, 1, FALSE)>>}

ScSchedulers == {[base |-> b, layers |-> <<>>] : b \in ScBases}
                    \cup {[base |-> b, layers |-> l] : b \in ScInnerBases, l \in ScLayerStacks}

ScIndexes == (0 .. MaxIndex) \cup {USIZE_MAX}

ScKeyLengths == 0 .. MaxKeyLength

ScPlaintextLengths == {0, 5, USIZE_MAX}

SchedStart(ks, index, key_length, plaintext_length, overflow_checks) ==
    /\ sc_ks = ks
    /\ sc_index = index
    /\ sc_key_length = key_length
    /\ sc_plaintext_length = plaintext_length
    /\ sc_overflow_checks = overflow_checks
    /\ sc_pc = "input"
    /\ sc_result = SchedPanic

SchedInit ==
    \E ks \in ScSchedulers, index \in ScIndexes, key_length \in ScKeyLengths,
       plaintext_length \in ScPlaintextLengths, overflow_checks \in BOOLEAN :
        SchedStart(ks, index, key_length, plaintext_length, overflow_checks)

SchedIdle == SchedStart([base |-> BaseRepeatingKey, layers |-> <<>>], 0, 1, 0, TRUE)

\* sched.schedule(index, key_length, plaintext_length)
SchedSchedule ==
    /\ sc_pc = "input"
    /\ sc_pc' = "schedule"
    /\ sc_result' = schedule_in(sc_ks, sc_index, sc_key_length, sc_plaintext_length,
                                sc_overflow_checks)
    /\ UNCHANGED scInputs

-----------------------------------------------------------------------------
(* The specifications: one per part of the program *)

vars == <<encVars, poolVars, crackVars, keylenVars, driverVars, spellVars, utilVars,
          schedVars>>

notEnc == <<poolVars, crackVars, keylenVars, driverVars, spellVars, utilVars,
    schedVars>>

notPool == <<encVars, crackVars, keylenVars, driverVars, spellVars, utilVars,
    schedVars>>

notCrack == <<encVars, poolVars, keylenVars, driverVars, spellVars, utilVars,
    schedVars>>

notKeylen == <<encVars, poolVars, crackVars, driverVars, spellVars, utilVars,
    schedVars>>

notDriver == <<encVars, poolVars, crackVars, keylenVars, spellVars, utilVars,
    schedVars>>

notSpell == <<encVars, poolVars, crackVars, keylenVars, driverVars, utilVars,
    schedVars>>

notUtil == <<encVars, poolVars, crackVars, keylenVars, driverVars, spellVars,
    schedVars>>

notSched == <<encVars, poolVars, crackVars, keylenVars, driverVars, spellVars, utilVars>>

\* an Encryptor under arbitrary sequences of encrypt and decrypt calls
Init == EncInit /\ PoolIdle /\ CrackIdle /\ KeylenIdle /\ DriverIdle /\ SpellIdle
    /\ UtilIdle /\ SchedIdle

Next ==
    \/ \E plaintext \in Plaintexts : Encrypt(plaintext) /\ UNCHANGED notEnc
    \/ \E ciphertext \in Ciphertexts : Decrypt(ciphertext) /\ UNCHANGED notEnc

Spec == Init /\ [][Next]_vars

\* the worker pool of main.rs
InitPool == PoolInit /\ EncIdle /\ CrackIdle /\ KeylenIdle /\ DriverIdle /\ SpellIdle
    /\ UtilIdle /\ SchedIdle

NextPool ==
    \/ ProducerGen /\ UNCHANGED notPool
    \/ ProducerSend /\ UNCHANGED notPool
    \/ \E w \in WorkerIds : WorkerRecv(w) /\ UNCHANGED notPool
    \/ \E w \in WorkerIds : WorkerCrack(w) /\ UNCHANGED notPool
    \/ \E w \in WorkerIds : WorkerSend(w) /\ UNCHANGED notPool
    \/ CollectorLoad /\ UNCHANGED notPool
    \/ CollectorRecv /\ UNCHANGED notPool
    \/ CollectorPrint /\ UNCHANGED notPool
    \/ MainReturn /\ UNCHANGED notPool
    \/ SigInt /\ UNCHANGED notPool

SpecPool == InitPool /\ [][NextPool]_vars

\* the column cracker applied to one input
InitCrack == CrackInit /\ EncIdle /\ PoolIdle /\ KeylenIdle /\ DriverIdle /\ SpellIdle
    /\ UtilIdle /\ SchedIdle

NextCrack ==
    \/ CrackSlice /\ UNCHANGED notCrack
    \/ CrackSliceStepBy /\ UNCHANGED notCrack
    \/ CrackBlock /\ UNCHANGED notCrack
    \/ CrackAll /\ UNCHANGED notCrack
    \/ CrackFromBytes /\ UNCHANGED notCrack

SpecCrack == InitCrack /\ [][NextCrack]_vars

\* the keylength estimator applied to one ciphertext
InitKeylen == KeylenInit /\ EncIdle /\ PoolIdle /\ CrackIdle /\ DriverIdle /\ SpellIdle
    /\ UtilIdle /\ SchedIdle

NextKeylen == KeylenGuesses /\ UNCHANGED notKeylen

SpecKeylen == InitKeylen /\ [][NextKeylen]_vars

\* the driver applied to one ciphertext
InitDriver == DriverInit /\ EncIdle /\ PoolIdle /\ CrackIdle /\ KeylenIdle /\ SpellIdle
    /\ UtilIdle /\ SchedIdle

NextDriver ==
    \/ DriverGuesses /\ UNCHANGED notDriver
    \/ DriverTest1 /\ UNCHANGED notDriver
    \/ DriverTest1Done /\ UNCHANGED notDriver
    \/ DriverCrack /\ UNCHANGED notDriver
    \/ DriverSpellcheck /\ UNCHANGED notDriver
    \/ DriverBest /\ UNCHANGED notDriver

SpecDriver == InitDriver /\ [][NextDriver]_vars

\* the driver, with a ciphertext that Test 1 can work on among the inputs
InitDriverTest1 == DriverInitTest1 /\ EncIdle /\ PoolIdle /\ CrackIdle /\ KeylenIdle /\ SpellIdle
    /\ UtilIdle /\ SchedIdle

SpecDriverTest1 == InitDriverTest1 /\ [][NextDriver]_vars

\* the re-segmenter: best_levenshtein, spellcheck pass by pass, best_crack
InitSpell ==
    SpellInit /\ EncIdle /\ PoolIdle /\ CrackIdle /\ KeylenIdle /\ DriverIdle /\ UtilIdle
    /\ SchedIdle

NextSpell ==
    \/ SpellBestLevenshtein /\ UNCHANGED notSpell
    \/ SpellBestCrack /\ UNCHANGED notSpell
    \/ SpellEnter /\ UNCHANGED notSpell
    \/ SpellIterate /\ UNCHANGED notSpell
    \/ SpellReturn /\ UNCHANGED notSpell

SpecSpell == InitSpell /\ [][NextSpell]_vars

\* a step of NextSpell can be taken: ENABLED <<NextSpell>>_vars
SpellCanStep == sp_pc \in {"input", "loop"}

\* the call runs on, a step that can be taken is taken: WF_vars(NextSpell)
\* with its ENABLED written as the state predicate it is
SpecSpellFair == SpecSpell /\ ([]<>~SpellCanStep \/ []<><<NextSpell>>_vars)

\* Dictionary::from_string and the shift of a symbol there and back
InitUtil ==
    UtilInit /\ EncIdle /\ PoolIdle /\ CrackIdle /\ KeylenIdle /\ DriverIdle /\ SpellIdle
    /\ SchedIdle

NextUtil ==
    \/ UtilFromString /\ UNCHANGED notUtil
    \/ UtilShiftBack /\ UNCHANGED notUtil

SpecUtil == InitUtil /\ [][NextUtil]_vars

\* one call of schedule on a scheduler value
InitSched ==
    SchedInit /\ EncIdle /\ PoolIdle /\ CrackIdle /\ KeylenIdle /\ DriverIdle /\ SpellIdle
    /\ UtilIdle

NextSched ==
    SchedSchedule /\ UNCHANGED notSched

SpecSched == InitSched /\ [][NextSched]_vars

\* Encryptors built by from_rng under the cycles of test_one
InitFromRng ==
    FromRngInit /\ PoolIdle /\ CrackIdle /\ KeylenIdle /\ DriverIdle /\ SpellIdle
    /\ UtilIdle /\ SchedIdle

NextFromRng ==
    \/ TestOneEncrypt /\ UNCHANGED notEnc
    \/ TestOneDecrypt /\ UNCHANGED notEnc

SpecFromRng == InitFromRng /\ [][NextFromRng]_vars

\* Encryptors over the schedulers of RandomScheduler, encrypt and decrypt in turn
InitRandomScheduler ==
    RandomSchedulerInit /\ PoolIdle /\ CrackIdle /\ KeylenIdle /\ DriverIdle /\ SpellIdle
    /\ UtilIdle /\ SchedIdle

NextRandomScheduler ==
    \/ EncryptNext /\ UNCHANGED notEnc
    \/ TestOneDecrypt /\ UNCHANGED notEnc

SpecRandomScheduler == InitRandomScheduler /\ [][NextRandomScheduler]_vars

-----------------------------------------------------------------------------
(* Encryptor: round trip and call order *)

\* the last call was a decrypt of what the last encrypt returned
DecryptedOwnOutput ==
    /\ enc_call.op = "decrypt"
    /\ enc_call.msg # MustEncrypt
    /\ enc_cycle.valid
    /\ enc_call.arg = enc_cycle.ciphertext

\* C1: decrypt called on the output of encrypt, directly after that encrypt
\* on the same Encryptor, returns the plaintext exactly, for every key,
\* scheduler (random injections included) and plaintext for which encrypt
\* returned.
C1_RoundTrip ==
    DecryptedOwnOutput =>
        /\ enc_call.status = "ok"
        /\ enc_call.ret = enc_cycle.plaintext

\* a round trip through a key with a non-zero shift and a scheduler that
\* injected random symbols
C1_Witness ==
    /\ DecryptedOwnOutput
    /\ enc_call.status = "ok"
    /\ Len(enc_cycle.plaintext) >= 2
    /\ Len(enc_cycle.ciphertext) > Len(enc_cycle.plaintext)
    /\ \E i \in 1 .. Len(key) : key[i] # 0
    /\ keyschedule.layers # <<>>
    /\ enc_call.ret = enc_cycle.plaintext

\* C2: encrypt and decrypt strictly alternate starting with encrypt: an
\* encrypt while an encrypt is pending aborts with "must decrypt after
\* encrypt", a decrypt with no pending encrypt aborts, and after successful
\* calls the stored plaintext length is present exactly when the last call
\* was encrypt.
C2_Alternation ==
    [][/\ (enc_call'.op = "encrypt" /\ prev_plaintext_length.some)
            => (enc_call'.status = "panic" /\ enc_call'.msg = MustDecrypt)
       /\ (enc_call'.op = "decrypt" /\ ~prev_plaintext_length.some)
            => (enc_call'.status = "panic" /\ enc_call'.msg = MustEncrypt)
       /\ enc_call'.status = "ok"
            => (prev_plaintext_length'.some <=> enc_call'.op = "encrypt")]_vars

\* an encrypt issued while the previous encrypt was still pending
C2_Witness ==
    /\ enc_call.op = "encrypt"
    /\ enc_call.status = "panic"
    /\ enc_call.msg = MustDecrypt
    /\ enc_cycle.valid
    /\ prev_plaintext_length.some

-----------------------------------------------------------------------------
(* Worker pool: the work queue, cancellation, closed channels *)

QueuedIds == {sched_chan[i].id : i \in 1 .. Len(sched_chan)}

ReceivedIds == {r.id : r \in received}

\* C3: the work queue never holds more than 128 descriptors, the producer does
\* not enqueue while it is full, and every descriptor enqueued is either still
\* queued or was received by exactly one worker (none lost, none delivered
\* twice).
C3_BoundedQueue ==
    /\ [](/\ Len(sched_chan) <= CAP
          /\ Cardinality(QueuedIds) = Len(sched_chan)
          /\ QueuedIds \cup ReceivedIds = 1 .. sent
          /\ QueuedIds \cap ReceivedIds = {}
          /\ \A a, b \in received : a.id = b.id => a.worker = b.worker)
    /\ [][Len(sched_chan) = CAP => sent' = sent]_vars

\* the queue is full with the producer waiting to send, after two different
\* workers have each received a descriptor
C3_Witness ==
    /\ Len(sched_chan) = CAP
    /\ producer.pc = "send"
    /\ sent < MaxSent
    /\ \E a, b \in received : a.worker # b.worker

\* C4: once the cancellation flag is set, the collector is on its way out of
\* the receive loop to the statistics: it has not aborted instead.
C4_CancelReachesStats == ~running => collector.pc # "panicked"

\* C5: a thread that observes a closed channel terminates cleanly: neither
\* the collector, nor the producer, nor a worker aborts on a failed send or
\* recv.
C5_CleanTermination ==
    /\ collector.msg # RecvError
    /\ producer.msg # SendError
    /\ \A w \in WorkerIds : workers[w].msg \notin {SendError, RecvError}


-----------------------------------------------------------------------------
(* Column cracker: slice and unslice, the choice of the shift *)

\* the positions of a ciphertext of length n that fall into column b of p
ColumnPositions(n, p, b) == {i \in 1 .. n : (i - 1) % p = b - 1}

\* C8: for every ciphertext, the empty one and ones shorter than the period
\* included, and every period p >= 1, slice puts position i into column
\* i mod p in the order of the ciphertext, and unslice of the columns with
\* the same period is the ciphertext again; for both pairs of slice and
\* unslice.
C8_SliceUnslice ==
    (cr_pc \in {"slice", "slice_step_by"} /\ cr_keylength >= 1) =>
        /\ cr_blocks.ok
        /\ Len(cr_blocks.val) = cr_keylength
        /\ \A b \in 1 .. cr_keylength :
              /\ Len(cr_blocks.val[b])
                    = Cardinality(ColumnPositions(Len(cr_ciphertext), cr_keylength, b))
              /\ \A k \in 1 .. Len(cr_blocks.val[b]) :
                    cr_blocks.val[b][k] = cr_ciphertext[b + ((k - 1) * cr_keylength)]
        /\ cr_unsliced = Ok(cr_ciphertext)

\* a ciphertext of several symbols, shorter than the period, sliced by the
\* bucket pass and put together again
C8_Witness ==
    /\ cr_pc = "slice"
    /\ Len(cr_ciphertext) >= 2
    /\ cr_keylength > Len(cr_ciphertext)
    /\ cr_blocks.ok
    /\ cr_blocks.val[cr_keylength] = <<>>
    /\ cr_unsliced = Ok(cr_ciphertext)

\* the distance of the column shifted forward by s to the baseline
\* a bin of the Frequencies is NaN
HasNaN(freq) == \E i \in 1 .. ALPHALEN : freq[i].nan

ForwardDistance(s) == compare(cr_baseline, from_bytes(ShiftAll(cr_ciphertext, s)))

\* the distance of the column shifted back by s to the baseline
BackwardDistance(s) == compare(cr_baseline, from_bytes(ShiftAll(cr_ciphertext, -s)))

\* s is the smallest shift of minimal distance
SmallestBest(Distance(_), s) ==
    /\ \A t \in 0 .. ALPHALEN - 1 : ~FLess(Distance(t), Distance(s))
    /\ \A t \in 0 .. s - 1 : FLess(Distance(s), Distance(t))

-----------------------------------------------------------------------------
(* Keylength estimator *)

\* the search range of the specification: periods P_LO <= p < P_HI
P_LO == 3

P_HI == 120

\* C10: the estimator returns exactly one (period, score) entry for every
\* period p with 3 <= p < 120, no entry for any other period, and the list is
\* in non-decreasing order of the score.
C10_AllPeriodsSorted ==
    kl_pc = "done" =>
        /\ kl_guesses.ok
        /\ \A p \in P_LO .. P_HI - 1 :
              Cardinality({i \in 1 .. Len(kl_guesses.val) : kl_guesses.val[i].keysize = p}) = 1
        /\ \A i \in 1 .. Len(kl_guesses.val) :
              kl_guesses.val[i].keysize \in P_LO .. P_HI - 1
        /\ \A i \in 1 .. Len(kl_guesses.val) - 1 :
              ~FLess(kl_guesses.val[i + 1].score, kl_guesses.val[i].score)


-----------------------------------------------------------------------------
(* Scenario A of the driver *)

\* Test 1 is over: guesses returned and the loop over the known plaintexts
\* is left, by its end or by a panic
Test1Over == dr_keylen_guesses # <<>> /\ ~(dr_pc = "test1")

\* the pairs <<k, j>> of a known plaintext and a keylen that Test 1 scored
Test1Scored == {kj \in (1 .. Len(dr_distances)) \X (1 .. (P_HI - P_LO)) :
                   kj[2] <= Len(dr_distances[kj[1]])}

\* levenshtein(result, K) / length(K) below 8/10
ScoreBelowThreshold(kj) == 10 * dr_distances[kj[1]][kj[2]] < 8 * Len(dr_test1[kj[1]])

\* the score of kj is at most that of other
ScoreAtMost(kj, other) ==
    dr_distances[kj[1]][kj[2]] * Len(dr_test1[other[1]])
        <= dr_distances[other[1]][other[2]] * Len(dr_test1[kj[1]])

ReturnedCandidate(K) ==
    /\ dr_pc = "done"
    /\ dr_results.ok
    /\ "plaintext" \in DOMAIN dr_results.val
    /\ dr_results.val.plaintext = K

\* C6: once Scenario A is over, every known plaintext K (none of them
\* empty) has been cracked at every period in [3, 120) and scored by
\* levenshtein(result, K) / length(K); if the smallest score is below 0.8
\* the driver has returned a known plaintext that achieved it, verbatim,
\* and otherwise it has returned none and has gone on to Scenario B.
C6_Test1ReturnsCandidate ==
    (Test1Over /\ \A k \in 1 .. Len(dr_test1) : dr_test1[k] # <<>>) =>
        /\ Len(dr_distances) = Len(dr_test1)
        /\ \A k \in 1 .. Len(dr_distances) : Len(dr_distances[k]) = P_HI - P_LO
        /\ IF \E kj \in Test1Scored : ScoreBelowThreshold(kj)
           THEN \E kj \in Test1Scored :
                    /\ \A other \in Test1Scored : ScoreAtMost(kj, other)
                    /\ ReturnedCandidate(dr_test1[kj[1]])
           ELSE /\ \A k \in 1 .. Len(dr_test1) : ~ReturnedCandidate(dr_test1[k])
                /\ dr_pc \in {"crack", "spellcheck", "best", "done", "panicked"}

-----------------------------------------------------------------------------
(* Scenario B of the driver *)

\* the symbols of text at the positions of column b of period p
Column(text, p, b) ==
    LET at(k) == text[b + ((k - 1) * p)]
    IN  Tabulate(at, 1, (Len(text) - b + p) \div p)

\* res is a column crack of the ciphertext at period p whose confidence
\* is multiplied by score: every column of its plaintext is a shift of the
\* same column of the ciphertext, and the confidence is the sum of the
\* distances of the columns to the dictionary baseline, times score
IsWeightedCrack(res, p, score) ==
    LET distance(b) == compare(from_dict(dr_words), from_bytes(Column(res.plaintext, p, b)))
    IN  /\ Len(res.plaintext) = Len(dr_cipherbytes)
        /\ \A b \in 1 .. p : \E s \in 0 .. ALPHALEN - 1 :
               Column(res.plaintext, p, b) = ShiftAll(Column(dr_cipherbytes, p, b), s)
        /\ res.confidence = FMul(FSum(Tabulate(distance, 1, p)), score)

\* Scenario B has come to its end
ScenarioBDone == dr_pc = "done" /\ dr_best_after_spellcheck.some

FewChunkPeriods(ciphertext) ==
    {p \in KEYSIZE_LO .. KEYSIZE_HI - 1 : Len(ciphertext) \div p < 2}

\* C11: for every ciphertext and every period with fewer than two whole
\* chunks (none or one), the raw score of the period is 0, and the estimator
\* returns its list, the regression and the sort completing
C11_FewChunksRawZero ==
    kl_pc = "done" =>
        \A p \in FewChunkPeriods(kl_ciphertext) :
            /\ hamming_distance_between_chunks(kl_ciphertext, p) = F(0)
            /\ kl_guesses.ok

\* C12: from_bytes of the empty byte sequence is a distribution whose 27 bins
\* are all 0, a defined value and not the outcome of a division by zero
C12_EmptyFrequencies ==
    (cr_pc = "from_bytes" /\ cr_ciphertext = <<>>) =>
        /\ cr_result.ok
        /\ Len(cr_result.val) = ALPHALEN
        /\ \A i \in 1 .. ALPHALEN : cr_result.val[i] = F(0)

-----------------------------------------------------------------------------
(* The byte dictionary and the re-segmenter *)

\* the edit distance of a and b by its recurrence: d[i, j] is the distance
\* of the first i symbols of a to the first j symbols of b
EditDistance(a, b) ==
    LET d[i \in 0 .. Len(a), j \in 0 .. Len(b)] ==
            IF i = 0 THEN j
            ELSE IF j = 0 THEN i
            ELSE Min(Min(d[i - 1, j] + 1, d[i, j - 1] + 1),
                     d[i - 1, j - 1] + (IF a[i] = b[j] THEN 0 ELSE 1))
    IN  d[Len(a), Len(b)]

\* the least edit distance of the probe to a word of the byte dictionary
LeastDistance(words, probe) ==
    CHOOSE n \in {EditDistance(probe, words[i]) : i \in 1 .. Len(words)} :
        \A i \in 1 .. Len(words) : n <= EditDistance(probe, words[i])

\* C16: for every probe, the empty one too, and every non-empty byte
\* dictionary, best_levenshtein returns a word of the dictionary at the
\* least edit distance to the probe over the whole dictionary, with exactly
\* that distance (for the empty probe the length of the word), and of the
\* words at that distance the one that comes first in the dictionary
C16_BestMatch ==
    (sp_pc = "best_levenshtein" /\ Len(sp_dict) > 0) =>
        LET words == BytesDictionary(sp_dict)
            least == LeastDistance(words, sp_text)
        IN  /\ sp_result.ok
            /\ sp_result.val.score = least
            /\ \E i \in 1 .. Len(words) :
                  /\ sp_result.val.word = words[i]
                  /\ EditDistance(sp_text, words[i]) = least
                  /\ \A k \in 1 .. i - 1 : EditDistance(sp_text, words[k]) > least
            /\ sp_text = <<>> => sp_result.val.score = Len(sp_result.val.word)

\* a non-empty probe with two words of the dictionary at the least distance
C16_Witness ==
    /\ sp_pc = "best_levenshtein"
    /\ sp_result.ok
    /\ sp_text # <<>>
    /\ LET words == BytesDictionary(sp_dict)
       IN  \E i, k \in 1 .. Len(words) :
              /\ i < k
              /\ sp_result.val.word = words[i]
              /\ EditDistance(sp_text, words[k]) = sp_result.val.score

\* text is a concatenation of words of the byte dictionary: c[i] says so of
\* the last i symbols of the text
IsConcat(text, words) ==
    LET n == Len(text)
        c[i \in 0 .. n] ==
            \/ i = 0
            \/ \E k \in 1 .. Len(words) :
                  /\ Len(words[k]) > 0
                  /\ Len(words[k]) <= i
                  /\ SubSeq(text, n - i + 1, n - i + Len(words[k])) = words[k]
                  /\ c[i - Len(words[k])]
    IN  c[n]

\* the word the last pass of the while loop added is a word of the byte
\* dictionary, and the plaintext so far ends with it
EmitsDictionaryWord ==
    (sp_pc = "loop" /\ sp_best.some) =>
        LET words == BytesDictionary(sp_dict)
            word == sp_best.val.word
            sofar == sp_st.plaintext
        IN  /\ \E k \in 1 .. Len(words) : word = words[k]
            /\ Len(sofar) >= Len(word)
            /\ SubSeq(sofar, Len(sofar) - Len(word) + 1, Len(sofar)) = word
            /\ IsConcat(sofar, words)

\* spellcheck has returned for a dictionary that is not empty: the
\* plaintext with one space behind it is a concatenation of words of the
\* byte dictionary
OutputIsWords ==
    LET words == BytesDictionary(sp_dict)
    IN  /\ sp_result.ok
        /\ sp_result = spellcheck(SpCracked, words)
        /\ IsConcat(sp_result.val.plaintext \o <<SPACE>>, words)

\* C13 as stated: for every near-plaintext and every non-empty byte
\* dictionary, the output of the re-segmenter followed by one space is a
\* concatenation of byte-form dictionary words; every segment emitted is a
\* dictionary word with its trailing space and only the last space is removed
C13_OutputIsWordsAlways ==
    /\ EmitsDictionaryWord
    /\ (sp_pc = "done" /\ Len(sp_dict) > 0) => OutputIsWords

\* C13, amended: the same for every near-plaintext of two symbols or more
C13_OutputIsWords ==
    /\ EmitsDictionaryWord
    /\ (sp_pc = "done" /\ Len(sp_dict) > 0 /\ Len(sp_text) >= 2) => OutputIsWords

\* the re-segmenter has returned two words or more, and not the text given
C13_Witness ==
    /\ sp_pc = "done"
    /\ sp_result.ok
    /\ sp_result.val.plaintext # sp_text
    /\ LET words == BytesDictionary(sp_dict)
       IN  \E i, k \in 1 .. Len(words) :
              Len(sp_result.val.plaintext) + 1 >= Len(words[i]) + Len(words[k])

\* l / (edit_distance + 1) * 1000
ScoreEps1(l, edit_distance) == (l * 1000) \div (edit_distance + 1)

\* l / edit_distance * 1000 as an unsigned integer: the largest one when the
\* distance is 0
ScoreEps0(l, edit_distance) ==
    IF edit_distance = 0 THEN USIZE_MAX ELSE (l * 1000) \div edit_distance

\* the probe lengths of the last pass of the while loop, which began behind
\* pos symbols of the near-plaintext
ProbeLengths(pos) ==
    1 .. Min(longest_word(BytesDictionary(sp_dict)), Len(sp_text) - pos) - 1

\* the edit distance of the best match of the l symbols behind pos
ProbeDistance(pos, l) ==
    LeastDistance(BytesDictionary(sp_dict), SubSeq(sp_text, pos + 1, pos + l))

\* the last pass emitted the word of a candidate whose score is the highest,
\* the candidate of probe length l being scored by Score(l, distance of the
\* best match of the l-symbol prefix)
EmitsHighest(Score(_, _)) ==
    (sp_pc = "loop" /\ sp_best.some) =>
        LET pos == sp_st.pos - sp_best.val.bytes_used
            words == BytesDictionary(sp_dict)
        IN  /\ Len(sp_next_words) = Cardinality(ProbeLengths(pos))
            /\ \E l \in ProbeLengths(pos) :
                  /\ sp_next_words[l].word = sp_best.val.word
                  /\ sp_next_words[l].bytes_used = l
                  /\ EditDistance(SubSeq(sp_text, pos + 1, pos + l), sp_next_words[l].word)
                        = ProbeDistance(pos, l)
                  /\ \A k \in ProbeLengths(pos) :
                        Score(k, ProbeDistance(pos, k)) <= Score(l, ProbeDistance(pos, l))

\* C14 as stated: at every cursor position the candidate of probe length l
\* is scored by l / (edit_distance + 1) * 1000, edit_distance being the
\* distance of the best dictionary match of the l-byte prefix, and the word
\* of a candidate of highest score is emitted
C14_ScoreEps1 == EmitsHighest(ScoreEps1)

\* C14, amended: the score is l / edit_distance * 1000, truncated, and the
\* largest unsigned integer when edit_distance is 0
C14_Score == EmitsHighest(ScoreEps0)

\* a pass that emitted an exact match although a longer probe has a higher
\* l / (edit_distance + 1)
C14_Witness ==
    /\ sp_pc = "loop"
    /\ sp_best.some
    /\ sp_best.val.score = 0
    /\ \E k \in 1 .. Len(sp_next_words) :
          ScoreEps1(k, sp_next_words[k].score)
              > ScoreEps1(sp_best.val.bytes_used, sp_best.val.score)

\* the probe lengths of the last pass whose candidate has the best score
BestProbes ==
    {l \in 1 .. Len(sp_next_words) :
        \A k \in 1 .. Len(sp_next_words) :
            ScoreEps0(k, sp_next_words[k].score) <= ScoreEps0(l, sp_next_words[l].score)}

\* the indices of the results of least confidence
BestCracks ==
    {i \in 1 .. Len(sp_cracks) :
        \A k \in 1 .. Len(sp_cracks) :
            ~FLess(sp_cracks[k].confidence, sp_cracks[i].confidence)}

\* the least and the greatest element of a set of numbers that is not empty
Least(S) == CHOOSE x \in S : \A y \in S : x <= y

Greatest(S) == CHOOSE x \in S : \A y \in S : y <= x

\* best_crack returns the first of the results of least confidence
BestCrackFirst ==
    (sp_pc = "best_crack" /\ Len(sp_cracks) > 0) =>
        /\ sp_result.ok
        /\ sp_result.val = sp_cracks[Least(BestCracks)]

\* C15 as stated: every selection among candidates of equal score takes the
\* one of smallest index: best_crack the first of the results of least
\* confidence, the re-segmenter the word of the smallest of the probe
\* lengths of best score
C15_SmallestIndex ==
    /\ BestCrackFirst
    /\ (sp_pc = "loop" /\ sp_best.some) =>
           sp_best.val.word = sp_next_words[Least(BestProbes)].word

\* C15, amended: best_crack takes the first of the results of least
\* confidence, the re-segmenter the word of the largest of the probe
\* lengths of best score, and advances by that length
C15_FirstCrackLastProbe ==
    /\ BestCrackFirst
    /\ (sp_pc = "loop" /\ sp_best.some) =>
           sp_best.val = sp_next_words[Greatest(BestProbes)]

\* a pass in which two probe lengths have the best score, with different words
C15_Witness ==
    /\ sp_pc = "loop"
    /\ sp_best.some
    /\ \E l \in BestProbes :
          /\ l < sp_best.val.bytes_used
          /\ sp_next_words[l].word # sp_best.val.word

-----------------------------------------------------------------------------
(* The dictionary built from a string, the shift there and back *)

\* CharToNum::to_num in a build without debug assertions: the char as a u8,
\* less 'a', wrapping
to_num(chr) == IF chr = 32 THEN ALPHALEN - 1 ELSE ((chr % 256) - 97) % 256

\* the whitespace-separated tokens of the source, lowercased
UtTokens ==
    split_ascii_whitespace([i \in 1 .. Len(ut_source) |-> to_ascii_lowercase(ut_source[i])])

\* C17: every word kept by from_string is made of the lowercase ASCII letters
\* a-z only: a token with a char that is not an ASCII letter is discarded,
\* and every kept word encodes to symbols in 0..25
C17_WordsAsciiLetters ==
    ut_pc = "from_string" =>
        /\ \A i \in 1 .. Len(ut_result.val) :
              \A k \in 1 .. Len(ut_result.val[i]) :
                  /\ ut_result.val[i][k] \in 97 .. 122
                  /\ to_num(ut_result.val[i][k]) \in 0 .. 25
        /\ \A t \in 1 .. Len(UtTokens) :
              (\E k \in 1 .. Len(UtTokens[t]) : UtTokens[t][k] \notin 97 .. 122)
                  => \A i \in 1 .. Len(ut_result.val) : ut_result.val[i] # UtTokens[t]

\* C18: the dictionary built by from_string has no word twice, for every
\* source, and its words are in ascending lexicographic order
C18_UniqueSorted ==
    ut_pc = "from_string" =>
        /\ \A i, k \in 1 .. Len(ut_result.val) : i # k => ut_result.val[i] # ut_result.val[k]
        /\ \A i \in 1 .. Len(ut_result.val) - 1 :
              StrLess(ut_result.val[i], ut_result.val[i + 1])

\* C19 as stated: for every symbol s and every shift amount k of the i8,
\* -128..127, shift(shift(s, k), -k) = s, no intermediate value overflowing
C19_ShiftBackAlways ==
    ut_pc = "shift_back" => ut_result.ok /\ ut_result.val = ut_sym

\* C19, amended: the same for every shift amount k in -127..127
C19_ShiftBack ==
    (ut_pc = "shift_back" /\ ut_amount # -128) => ut_result.ok /\ ut_result.val = ut_sym

\* the space shifted by -127 and back
C19_Witness ==
    /\ ut_pc = "shift_back"
    /\ ut_sym = ALPHALEN - 1
    /\ ut_amount = -127
    /\ ut_result = Ok(ut_sym)

-----------------------------------------------------------------------------
(* The attempts of a worker *)

\* the descriptors worker w has received: its attempts
Attempts(w) == {r \in received : r.worker = w}

\* the choice of worker.rs line 87 can fall on a known plaintext and on a
\* generated one
BothScenariosOffered ==
    /\ \E i \in 1 .. Len(ScenarioChoices) : ScenarioChoices[i]
    /\ \E i \in 1 .. Len(ScenarioChoices) : ~ScenarioChoices[i]

\* no attempt is on a generated plaintext
ScenarioBNeverTaken == \A w \in WorkerIds : workers[w].scenario # "B"

\* C20: an attempt of a worker is on a known plaintext (Scenario A) or on a
\* generated one (Scenario B), both kinds can be taken where the worker
\* chooses, a Scenario B attempt has run the spell re-segmentation before it
\* sends, and every attempt that completes has sent exactly one result
C20_WorkerAttempts ==
    \A w \in WorkerIds :
        /\ workers[w].pc = "crack" => BothScenariosOffered
        /\ workers[w].pc = "send" =>
              /\ workers[w].scenario \in {"A", "B"}
              /\ workers[w].scenario = "B" => workers[w].spell_checked
              /\ DOMAIN workers[w].result = {"sched", "keylen", "success"}
        /\ workers[w].pc # "panicked" =>
              Cardinality(Attempts(w))
                  = workers[w].results_sent
                      + (IF workers[w].pc \in {"crack", "send"} THEN 1 ELSE 0)
-----------------------------------------------------------------------------
(* Claims about the schedulers *)

\* the scheduler of the documentation of PeriodicRand, for the key ABCDEFG
DocScheduler == [base |-> BaseRepeatingKey, layers |-> <<PeriodicRand(3, 1, FALSE)>>]

\* A_BCD_EFG_ABC_DEF_GAB_CDE_FG as key indices (A is key index 0), _ is Rand
DocKeystream ==
    <<KeyIndex(0), Rand, KeyIndex(1), KeyIndex(2), KeyIndex(3), Rand,
      KeyIndex(4), KeyIndex(5), KeyIndex(6), Rand, KeyIndex(0), KeyIndex(1), KeyIndex(2), Rand,
      KeyIndex(3), KeyIndex(4), KeyIndex(5), Rand, KeyIndex(6), KeyIndex(0), KeyIndex(1), Rand,
      KeyIndex(2), KeyIndex(3), KeyIndex(4), Rand, KeyIndex(5), KeyIndex(6)>>

\* a single PeriodicRand layer in insert mode was asked for a position
InsertLayerScheduled ==
    /\ sc_pc = "schedule"
    /\ Len(sc_ks.layers) = 1
    /\ ~sc_ks.layers[1].overwrite
    /\ sc_key_length >= 1

\* C21: period is the number of key characters between two consecutive random
\* characters.  For the key ABCDEFG and PeriodicRand { period: 3, start: 1,
\* overwrite: false } the keystream is A_BCD_EFG_ABC_DEF_GAB_CDE_FG, and in
\* insert mode the random positions are start, start + (period + 1),
\* start + 2 * (period + 1), ...: exactly period key positions lie between two
\* consecutive ones.
C21_PeriodKeyChars ==
    /\ InsertLayerScheduled /\ sc_ks = DocScheduler /\ sc_key_length = 7
            /\ sc_index < Len(DocKeystream)
        => sc_result = DocKeystream[sc_index + 1]
    /\ InsertLayerScheduled
        => (sc_result = Rand
                <=> /\ sc_index >= sc_ks.layers[1].start
                    /\ (sc_index - sc_ks.layers[1].start) % (sc_ks.layers[1].period + 1) = 0)

\* x is a multiple of m (0 is the only multiple of 0)
IsMultiple(x, m) == IF m = 0 THEN x = 0 ELSE x % m = 0

\* position i is one of start, start + period, start + 2 * period, ...
IsRandomPosition(prand, i) == i >= prand.start /\ IsMultiple(i - prand.start, prand.period)

\* r(i): the number of random positions strictly before i, counted one by
\* one up to MaxIndex + 1 and by division beyond
RandomBefore(prand, i) ==
    IF i <= MaxIndex + 1
    THEN Cardinality({j \in 0 .. (i - 1) : IsRandomPosition(prand, j)})
    ELSE IF i <= prand.start THEN 0
    ELSE IF prand.period = 0 THEN 1
    ELSE ((i - 1 - prand.start) \div prand.period) + 1

\* the scheduler behind the outermost layer
InnerScheduler(ks) == [base |-> ks.base, layers |-> Tail(ks.layers)]

\* a scheduler with at least one PeriodicRand layer was asked for a position
LayerScheduled == sc_pc = "schedule" /\ sc_ks.layers # <<>>

\* the position is scheduled as the claim says for the outermost layer
ScheduledAsLayer ==
    LET prand == Head(sc_ks.layers)
        inner == InnerScheduler(sc_ks)
        r == RandomBefore(prand, sc_index)
    IN  /\ IsRandomPosition(prand, sc_index) => sc_result = Rand
        /\ inner.layers = <<>> /\ sc_key_length >= 1 /\ sc_result = Rand
            => IsRandomPosition(prand, sc_index)
        /\ ~IsRandomPosition(prand, sc_index) /\ ~prand.overwrite
            => /\ r <= sc_index
               /\ sc_result = schedule_in(inner, sc_index - r, sc_key_length,
                                          sc_plaintext_length, sc_overflow_checks)
        /\ ~IsRandomPosition(prand, sc_index) /\ prand.overwrite
            => sc_result = schedule_in(inner, sc_index, sc_key_length,
                                       sc_plaintext_length, sc_overflow_checks)

\* C23: for a PeriodicRand layer in front of any inner scheduler, position i
\* is random exactly when i >= start and i - start is a multiple of period; in
\* insert mode a position i that is not random is scheduled as
\* inner.schedule(i - r(i)), r(i) the number of random positions before i,
\* without underflow; in overwrite mode it is scheduled as inner.schedule(i).
C23_PeriodicRandLayer == LayerScheduled => ScheduledAsLayer

\* key[a..b) as key indices
KeyRange(a, b) == [k \in 1 .. (b - a) |-> a + k - 1]

RECURSIVE Repeated(_, _)
Repeated(block, times) == IF times = 0 THEN <<>> ELSE block \o Repeated(block, times - 1)

\* one period of the stream: key[0..o), key[o..o+n) r + 1 times, key[o+n..t)
AabPeriod(n, r, o, t) ==
    KeyRange(0, o) \o Repeated(KeyRange(o, o + n), r + 1) \o KeyRange(o + n, t)

\* the key index at position i of that stream.  For r = usize::MAX the period
\* t + n * r lies beyond every position and so does the end of the repeated
\* block: the stream is key[0..o) and then the block again and again.
AabStreamAt(n, r, o, t, i) ==
    IF r < USIZE_MAX THEN AabPeriod(n, r, o, t)[(i % (t + n * r)) + 1]
    ELSE IF i < o THEN i
    ELSE o + ((i - o) % n)

\* an Aab scheduler within the claim's range was asked for a position
AabScheduled ==
    /\ sc_pc = "schedule"
    /\ sc_ks.layers = <<>>
    /\ sc_ks.base.kind = "Aab"
    /\ 1 <= sc_ks.base.num_chars
    /\ sc_ks.base.num_chars < sc_key_length
    /\ sc_ks.base.offset + sc_ks.base.num_chars <= sc_key_length

\* C24: for Aab { num_chars: n, num_reps: r, offset: o } and a key of length t
\* with 1 <= n < t and o + n <= t, the scheduled key stream has the period
\* t + n * r, and one period is key[0..o), then key[o..o+n) r + 1 times, then
\* key[o+n..t).
C24_AabStream ==
    AabScheduled
        => sc_result = KeyIndex(AabStreamAt(sc_ks.base.num_chars, sc_ks.base.num_reps,
                                            sc_ks.base.offset, sc_key_length, sc_index))

\* a base scheduler was asked for a position of a key that is not empty
BaseScheduled == sc_pc = "schedule" /\ sc_ks.layers = <<>> /\ sc_key_length >= 1

\* C26: for every key length t >= 1, every position, every plaintext length
\* and every parameter value, each base scheduler returns a key index in
\* [0, t): no random slot, no index out of range, no panic of the arithmetic.
C26_BaseInRange ==
    BaseScheduled
        => sc_result.tag = "KeyIndex" /\ sc_result.idx \in 0 .. (sc_key_length - 1)

-----------------------------------------------------------------------------
(* Claims about Encryptors built by from_rng *)

\* encrypt returned a ciphertext
Encrypted == enc_call.op = "encrypt" /\ enc_call.status = "ok"

\* C22: for every Encryptor produced by from_rng and every generated
\* plaintext of at least 10 dictionary words, the ciphertext returned by
\* encrypt differs from the plaintext.
C22_CiphertextDiffers == Encrypted => enc_call.ret # enc_call.arg

-----------------------------------------------------------------------------
(* Claims about crack *)

\* crack was applied with a period between 1 and the length of the ciphertext
CrackedInRange ==
    /\ cr_pc = "crack"
    /\ 1 <= cr_keylength
    /\ cr_keylength <= Len(cr_ciphertext)

\* the L1 distance between the baseline and the Frequencies of column b of
\* the plaintext returned
ColumnConfidence(b) ==
    compare(cr_baseline, from_bytes(Column(cr_result.val.plaintext, cr_keylength, b)))

\* the plaintext returned is the ciphertext with one shift per column
OneShiftPerColumn ==
    \A b \in 1 .. cr_keylength :
        \E s \in 0 .. ALPHALEN - 1 :
            \A i \in ColumnPositions(Len(cr_ciphertext), cr_keylength, b) :
                cr_result.val.plaintext[i] = Shift(cr_ciphertext[i], s)

\* C25: for every ciphertext, baseline and period p with 1 <= p <= length of
\* the ciphertext, crack returns a plaintext of the length of the ciphertext
\* in the original order, position i being ciphertext symbol i shifted by the
\* shift of column i mod p, and the confidence is the sum of the p
\* per-column confidences.
C25_CrackColumns ==
    CrackedInRange
        => /\ cr_result.ok
           /\ Len(cr_result.val.plaintext) = Len(cr_ciphertext)
           /\ OneShiftPerColumn
           /\ cr_result.val.confidence
                  = FSum([b \in 1 .. cr_keylength |-> ColumnConfidence(b)])

-----------------------------------------------------------------------------
(* Claims about encrypt *)

\* the positions of the returned ciphertext that are injected: the scheduler
\* gave no key entry for them
InjectedPositions ==
    {i \in 0 .. (Len(enc_call.ret) - 1) :
        ~KeyGet(key, schedule(keyschedule, i, Len(key), Len(enc_call.arg))).some}

\* C27: for every scheduler RandomScheduler::from_rng can generate (a base
\* under zero to three PeriodicRand layers of period >= 32) and every finite
\* plaintext, encrypt terminates: the ciphertext is as long as the plaintext
\* and the injected positions together, and its last symbol is a real one.
C27_EncryptTerminates ==
    enc_call.op = "encrypt"
        => /\ enc_call.status = "ok"
           /\ Len(enc_call.ret) = Len(enc_call.arg) + Cardinality(InjectedPositions)
           /\ enc_call.ret # <<>> => (Len(enc_call.ret) - 1) \notin InjectedPositions

\* a plaintext longer than a period under one inserting layer: a symbol
\* was injected at position start and another one a period later
C27_Witness ==
    /\ Encrypted
    /\ Len(keyschedule.layers) = 1
    /\ ~keyschedule.layers[1].overwrite
    /\ Cardinality(InjectedPositions) = 2
    /\ Len(enc_call.ret) = Len(enc_call.arg) + 2

\* a call of encrypt that was allowed and returned
EncryptReturns ==
    /\ ~prev_plaintext_length.some
    /\ prev_plaintext_length'.some
    /\ enc_call'.op = "encrypt"
    /\ enc_call'.status = "ok"

AltShifts == {0, 13}

\* the positions below n where an Encryptor with key k and scheduler ks injects
\* a symbol
InjectedWith(k, ks, ptlen, n) ==
    {i \in 0 .. (n - 1) : ~KeyGet(k, schedule(ks, i, Len(k), ptlen)).some}

\* the ciphertext of an Encryptor (k, ks, r) for arg against that of other keys
\* as long as k on other plaintexts as long as arg: the same positions are
\* injected, with the same symbols
SamePositionsInjected(k, ks, r, arg, ret) ==
    \A shift \in AltShifts, char \in PtSymbols :
        \E other \in {EncryptLoop([i \in 1 .. Len(k) |-> shift], ks,
                                  [i \in 1 .. Len(arg) |-> char], 0, <<>>, r)} :
            /\ other.status = "ok"
            /\ Len(other.text) = Len(ret)
            /\ InjectedWith([i \in 1 .. Len(k) |-> shift], ks, Len(arg), Len(ret))
                   = InjectedWith(k, ks, Len(arg), Len(ret))
            /\ \A i \in InjectedWith(k, ks, Len(arg), Len(ret)) :
                   other.text[i + 1] = ret[i + 1]

\* C28: encrypt does not advance the random generator the Encryptor stores:
\* an encrypt of the plaintext of the cycle before returns the ciphertext of
\* that cycle, injected symbols included, and which positions are injected
\* depends on the position, the key length and the plaintext length only,
\* not on the key values or the plaintext content.
C28_EncryptKeepsRng ==
    [][EncryptReturns
        => /\ rng' = rng
           /\ (enc_cycle.valid /\ enc_cycle.plaintext = enc_call'.arg)
                  => enc_call'.ret = enc_cycle.ciphertext
           /\ SamePositionsInjected(key', keyschedule', rng', enc_call'.arg, enc_call'.ret)]_vars

\* the second of two cycles on the same plaintext, with injected symbols in
\* the ciphertext
C28_Witness ==
    /\ Encrypted
    /\ enc_cycle.again
    /\ Len(key) > 0
    /\ enc_call.arg # <<>>
    /\ InjectedPositions # {}

-----------------------------------------------------------------------------
(* Claims about the loop of spellcheck *)

\* the bytes of the near-plaintext behind the cursor
SpellRemaining == Len(sp_text) - sp_st.pos

\* spellcheck has returned or aborted, or another operation was called
SpellStopped == sp_pc \in {"done", "panicked", "best_levenshtein", "best_crack"}

\* what a step does that starts inside the loop: a pass that emits a word
\* and advances by its probe length, or the exit
SpellLoopStep ==
    sp_pc = "loop"
        => IF SpellRemaining >= 2
           THEN /\ sp_pc' = "loop"
                /\ Len(sp_next_words') >= 1
                /\ sp_best'.some
                /\ sp_best'.val.bytes_used \in 1 .. SpellRemaining
                /\ sp_st'.pos = sp_st.pos + sp_best'.val.bytes_used
                /\ sp_st'.plaintext = sp_st.plaintext \o sp_best'.val.word
                /\ \E i \in 1 .. Len(sp_dict) :
                       sp_best'.val.word = BytesDictionary(sp_dict)[i]
           ELSE sp_pc' = "done" /\ sp_st' = sp_st

\* C29: for every near-plaintext and every byte dictionary that is not empty
\* the re-segmenter terminates: while at least 2 bytes remain, a pass has a
\* candidate probe length, emits one word and advances the cursor by the
\* chosen probe length, which is at least 1 and at most what remains; the
\* loop stops as soon as fewer than 2 bytes remain.
C29_SpellcheckTerminates == [][SpellLoopStep]_vars /\ <>SpellStopped

\* spellcheck returned after more than one pass: the last probe chosen is
\* shorter than what was consumed
C29_Witness ==
    /\ sp_pc = "done"
    /\ Len(sp_dict) > 0
    /\ sp_best.some
    /\ sp_best.val.bytes_used < sp_st.pos
    /\ SpellRemaining < 2

-----------------------------------------------------------------------------
(* Claims about the statistics of main *)

\* the results the workers 1 .. w have sent
RECURSIVE ResultsSent(_)
ResultsSent(w) == IF w = 0 THEN 0 ELSE workers[w].results_sent + ResultsSent(w - 1)

\* the results the collector has taken from the channel
ResultsReceived == ResultsSent(Len(workers)) - Len(results_chan)

\* the attempts counted in the rows lo .. hi
RECURSIVE RowAttempts(_, _)
RowAttempts(lo, hi) == IF lo > hi THEN 0 ELSE stats[lo].n + RowAttempts(lo + 1, hi)

StatsAgree ==
    /\ stats[0].n = ResultsReceived
    /\ stats[0].n = RowAttempts(1, 4)
    /\ stats[0].n = RowAttempts(5, 8)

\* a step that changes the statistics adds one attempt to the total, to one
\* row of 1 .. 4 and to one row of 5 .. 8
OneRowPerGroup ==
    stats' # stats
        => /\ stats'[0].n = stats[0].n + 1
           /\ \E r \in 1 .. 4, b \in 5 .. 8 :
                 \A i \in 1 .. 8 :
                     stats'[i].n = stats[i].n + (IF i \in {r, b} THEN 1 ELSE 0)

\* C30: after the collector has consumed any number of results, the overall
\* attempt count stats[0] is the number of results received, the sum of the
\* attempt counts of the rows 1..4 (by number of layers) and the sum of those
\* of the rows 5..8 (by base scheduler); each result adds to exactly one row
\* of each group.
C30_StatsAgree == []StatsAgree /\ [][OneRowPerGroup]_vars

\* two results consumed and counted, in a row of each group
C30_Witness ==
    /\ ResultsReceived >= 2
    /\ stats[0].n >= 2
    /\ \E r \in 1 .. 4, b \in 5 .. 8 : stats[r].n >= 2 /\ stats[b].n >= 2

=============================================================================
